---- MODULE Spec2Model ----
(***************************************************************************)
(* A model of the level-synchronous batched extraction-and-checkpoint      *)
(* pipeline of TD_Lineage.                                                 *)
(*                                                                         *)
(*   src/extraction_db.py   batch planner, date windows, extraction        *)
(*                          worker, DoneRecord store, main                 *)
(*   src/func_v4.py         level orchestrator (setup_level_directory,     *)
(*                          run_pipeline, checkpoint, main_1)              *)
(*   src/map_db.py          Global Dedup Cache reader (map_table_to_db)    *)
(*                                                                         *)
(* The module holds nine state machines over groups of variables:          *)
(*                                                                         *)
(*   SpecWindows  generate_30d_batches applied to drawn (start, end)       *)
(*   SpecPlan     group_tables_by_db applied to drawn (param, done, size)  *)
(*   Spec         runs of extraction_db.main against a backend whose       *)
(*                answer to each query is rows, SKIP or FATAL              *)
(*   SpecLevels   the frontier computed level after level by               *)
(*                setup_level_directory over a drawn discovery graph       *)
(*   SpecKill     one update_done_csv call in a process that can be killed *)
(*   SpecPipeline runs of main_1 over levels, steps and the checkpoint     *)
(*   SpecCache    the cache reader applied to drawn mapping files          *)
(*   SpecMap      calls of map_table_to_db: load, lookups, appends, kill   *)
(*   SpecSetup    setup_level_directory applied to a drawn previous level  *)
(* SpecLevelsFair is SpecLevels under weak fairness; SpecTimeout is Spec   *)
(* with the backend's timeouts told apart from its other errors; SpecLabel *)
(* is one call of map_table_to_db on a DataFrame of two rows; SpecJava is  *)
(* one call of run_concurrent_pipeline with its observer and workers.      *)
(***************************************************************************)
EXTENDS Integers, Sequences, FiniteSets, TLC

(***************************************************************************)
(* Bounds of the model.                                                    *)
(***************************************************************************)
\* longest param.csv (input table list) drawn
MaxParamLen == 3
\* largest start / end day drawn for generate_30d_batches
MaxDay == 65
\* largest batch size drawn for the planner on its own
MaxBatchSize == 3
\* longest done.csv drawn for the planner on its own
MaxPlanDone == 1
\* number of runs of main in one behaviour
MaxRuns == 2
\* END_DATE - START_DATE of a run (timedelta(days=180) in the source),
\* scaled so that a run has two date windows and, as in the source, the
\* span is a multiple of BATCH_DAYS
RangeDays == 60
\* BATCH_SIZE of a run (100 in the source), scaled to the drawn lists
RunBatchSize == 2
\* number of backend errors (SKIP or FATAL) the backend raises in one
\* behaviour
MaxBackendErrors == 2
\* config.max_levels of the level orchestrator
MaxLevels == 4
\* longest done.csv and largest batch drawn for one update_done_csv call
MaxStoreLen == 2
MaxMarkedTables == 2
\* number of runs of main_1 in one behaviour, and number of artifacts that
\* go missing between the runs
MaxPipelineRuns == 3
MaxLostArtifacts == 1
\* longest Global Dedup Cache store (the mapping_output file) drawn
MaxCacheLen == 3
\* number of calls of map_table_to_db in one behaviour
MaxMapCalls == 2
\* longest previous-level output and input drawn for setup_level_directory
MaxSetupRows == 2
\* most files the Java process writes or rewrites in the output directory
MaxJavaWrites == 3
\* max_workers of the ConcurrentJavaPythonPipeline
max_workers == 2

(***************************************************************************)
(* Program constants.                                                      *)
(***************************************************************************)
BATCH_DAYS == 30

(***************************************************************************)
(* Values.                                                                 *)
(***************************************************************************)
Min(a, b) == IF a <= b THEN a ELSE b

\* all sequences over S of length at most n
SeqsUpTo(S, n) == UNION {[1..k -> S] : k \in 0..n}

Databases == {"DB1", "DB2"}
TableNames == {"T1", "T2", "T3"}
\* a row of param.csv: the columns target_db, target_table
ParamRows == [target_db : Databases, target_table : TableNames]
\* the rows the param.csv of a run is drawn from
RunParamRows ==
    {r \in ParamRows : r.target_db = "DB1" \/ r.target_table = "T1"}
\* the lists over RunParamRows are drawn up to the renaming of the tables
\* of DB1: T2 is first used after T1, T3 after T2
FirstUseInOrder(list) ==
    \A i \in DOMAIN list :
        /\ (list[i].target_db = "DB1" /\ list[i].target_table = "T2") =>
              \E j \in 1..(i - 1) :
                  list[j].target_db = "DB1" /\ list[j].target_table = "T1"
        /\ (list[i].target_db = "DB1" /\ list[i].target_table = "T3") =>
              \E j \in 1..(i - 1) :
                  list[j].target_db = "DB1" /\ list[j].target_table = "T2"
RunParamLists ==
    {list \in SeqsUpTo(RunParamRows, MaxParamLen) : FirstUseInOrder(list)}
\* the STATEMENT_TYPES lists drawn: the source's, and one of two types
StatementTypeLists == {<<"Insert">>, <<"Insert", "Update">>}
StatementTypeNames == {"Insert", "Update"}


(***************************************************************************)
(* generate_30d_batches: the date windows of [start, end].  Dates are day  *)
(* numbers; timedelta(days=k) is + k.                                      *)
(***************************************************************************)
RECURSIVE generate_30d_batches(_, _)
generate_30d_batches(start, end) ==
    LET cur == start IN
    IF cur < end
    THEN LET batch_end == Min(cur + (BATCH_DAYS - 1), end)
         IN  <<[start_dt |-> cur, end_dt |-> batch_end]>>
             \o generate_30d_batches(batch_end + 1, end)
    ELSE <<>>

(***************************************************************************)
(* The DoneRecord store (done.csv) and the planner.                        *)
(***************************************************************************)
\* load_processed_tables reading nothing from done.csv
load_processed_tables_forgets(store) == {}

\* load_processed_tables: the set of (target_db, target_table) of done.csv;
\* a store with no record stands for a missing file as well
load_processed_tables(store) ==
    {<<store[i].target_db, store[i].target_table>> : i \in DOMAIN store}

\* the (db, table) tuples of param.csv not yet processed, in input order
remaining_tables(prm, processed_tables) ==
    LET keep == SelectSeq(prm, LAMBDA row :
                    <<row.target_db, row.target_table>> \notin processed_tables)
    IN  [i \in 1..Len(keep) |-> <<keep[i].target_db, keep[i].target_table>>]

\* the keys of db_groups in insertion order: each database at its first
\* appearance in the remaining tables
db_group_keys(remaining) ==
    LET F[i \in 0..Len(remaining)] ==
            IF i = 0 THEN <<>>
            ELSE IF \E j \in 1..Len(F[i-1]) : F[i-1][j] = remaining[i][1]
                 THEN F[i-1]
                 ELSE Append(F[i-1], remaining[i][1])
    IN  F[Len(remaining)]

\* db_groups[db]: the tables of db, in input order
db_group(remaining, db) ==
    LET mine == SelectSeq(remaining, LAMBDA p : p[1] = db)
    IN  [i \in 1..Len(mine) |-> mine[i][2]]

\* create_batches with the loop bound off by one, range(0, len(tables) - 1,
\* size): a last batch of one table is never made
create_batches_short_range(tables, size) ==
    LET starts == {i \in 0..(Len(tables) - 2) : i % size = 0}
        count  == Cardinality(starts)
    IN  [k \in 1..count |->
            LET i == (k - 1) * size
                batch_tables == SubSeq(tables, i + 1, Min(i + size, Len(tables)))
            IN  [batch_number |-> (i \div size) + 1,
                 tables       |-> batch_tables,
                 batch_size   |-> Len(batch_tables)]]

\* create_batches numbering the batches i // size, from 0
create_batches_from_zero(tables, size) ==
    LET starts == {i \in 0..(Len(tables) - 1) : i % size = 0}
        count  == Cardinality(starts)
    IN  [k \in 1..count |->
            LET i == (k - 1) * size
                batch_tables == SubSeq(tables, i + 1, Min(i + size, Len(tables)))
            IN  [batch_number |-> i \div size,
                 tables       |-> batch_tables,
                 batch_size   |-> Len(batch_tables)]]

\* for i in range(0, len(tables), size): tables[i:i + size], numbered
\* (i // size) + 1
create_batches(tables, size) ==
    LET starts == {i \in 0..(Len(tables) - 1) : i % size = 0}
        count  == Cardinality(starts)
    IN  [k \in 1..count |->
            LET i == (k - 1) * size
                batch_tables == SubSeq(tables, i + 1, Min(i + size, Len(tables)))
            IN  [batch_number |-> (i \div size) + 1,
                 tables       |-> batch_tables,
                 batch_size   |-> Len(batch_tables)]]

\* group_tables_by_db: db_batches as the sequence of its items, in the
\* dictionary's insertion order
group_tables_by_db(prm, store, size) ==
    LET processed_tables == load_processed_tables(store)
        remaining == remaining_tables(prm, processed_tables)
        keys == db_group_keys(remaining)
    IN  [n \in 1..Len(keys) |->
            [db      |-> keys[n],
             batches |-> create_batches(db_group(remaining, keys[n]), size)]]

(***************************************************************************)
(* Variables.                                                              *)
(***************************************************************************)
VARIABLES
    \* SpecWindows: the drawn range and the windows generated for it
    w_start, w_end, w_windows, w_pc,
    \* SpecPlan: the drawn inputs of the planner and the batches it returns
    p_param, p_done, p_size, p_batches, p_pc,
    \* Spec, durable state: param.csv, STATEMENT_TYPES, done.csv,
    \* completed.txt, the <stmt>_queries.csv files
    param, stmts, done, completed, outfile,
    \* Spec, the running process: where main is, the number of runs started,
    \* the locals of main and process_database_batches, the loop indexes
    \* (statement type, database, batch, date window)
    pc, run, total_tables, db_batches, si, di, bi, wi,
    written_flags, processed_batches, failed_batches, error,
    \* Spec, the record of the current run: the backend queries issued with
    \* their outcome, the update_done_csv calls, done.csv as the run found it
    queries, marked, done_at_start,
    \* Spec, the backend: the number of errors it has raised
    backend_errors,
    \* SpecLevels: the discovery graph, ../param.csv, and per level the
    \* input table list (input_csv) and the final output (final_output_csv)
    l_graph, l_param, level_inputs, level_outputs, l_pc,
    \* SpecKill: done.csv before one update_done_csv call, the batch being
    \* marked, df_combined, done.csv on disk, and where the call is
    k_before, k_db, k_tables, k_combined, k_file, k_pc,
    \* SpecPipeline, durable state: config.start_level, the checkpoint file
    \* (<<>> when it does not exist, else <<level, step>>), per level the
    \* output artifacts on disk, global_show_table.csv
    cfg_start_level, checkpoint, artifacts, show_table_file,
    \* SpecPipeline, the running process: where main_1 / run_pipeline is,
    \* the number of runs started, start_from_level and start_from_step
    \* (<<>> for None), level_num and current_step
    m_pc, m_run, start_from, cur_level, current_step,
    \* SpecPipeline, the record of the current run: the steps executed with
    \* their outcome, whether an artifact of a skipped step was missing
    \* when the run resumed, and the number of artifacts lost so far
    executed, missing_at_resume, lost,
    \* SpecCache: the mapping_output file, the table -> database dictionaries
    \* pre-filled from the DataFrame, and the two dictionaries of
    \* map_table_to_db
    c_store, c_source_df, c_target_df,
    source_table_db_mapping, target_table_db_mapping, c_pc,
    \* SpecMap, a call of map_table_to_db: the DataFrame read from
    \* input_file, the number of calls started, the mapping_output file as
    \* the call found it, whether its read raised, the tables needing
    \* lookup, those the loop has still to visit, the lookup that has
    \* returned and is not yet recorded, the lookups performed by the call,
    \* and the DataFrame written to output_file
    c_df, c_calls, c_store_at_start, c_read_failed,
    source_tables_needing_lookup, target_tables_needing_lookup,
    c_pending, c_inflight, c_lookups, c_output,
    \* SpecSetup, one call of setup_level_directory for a level above 1:
    \* the previous level's final output and input, and the input_csv
    \* written for the level
    s_prev_output, s_prev_input, s_new_input, s_pc,
    \* SpecJava, one call of run_concurrent_pipeline: the Java process, the
    \* events the observer has not dispatched yet, the file the handler is
    \* about to put, json_queue with its count of unfinished tasks,
    \* processed_files, results, each worker's position and file, and the
    \* main thread's position and remaining_files
    java_process, java_writes, written_files, fs_events, observing,
    handler_file, json_queue, unfinished_tasks, processed_files, results,
    worker_pc, worker_file, main_pc, remaining_files

winVars == <<w_start, w_end, w_windows, w_pc>>
planVars == <<p_param, p_done, p_size, p_batches, p_pc>>
durableVars == <<param, stmts, done, completed, outfile>>
processVars == <<pc, run, total_tables, db_batches, si, di, bi, wi,
                 written_flags, processed_batches, failed_batches, error>>
recordVars == <<queries, marked, done_at_start>>
runVars == <<durableVars, processVars, recordVars, backend_errors>>

levelVars == <<l_graph, l_param, level_inputs, level_outputs, l_pc>>

killVars == <<k_before, k_db, k_tables, k_combined, k_file, k_pc>>

pipeVars == <<cfg_start_level, checkpoint, artifacts, show_table_file,
              m_pc, m_run, start_from, cur_level, current_step,
              executed, missing_at_resume, lost>>

mapVars == <<c_df, c_calls, c_store_at_start, c_read_failed,
             source_tables_needing_lookup, target_tables_needing_lookup,
             c_pending, c_inflight, c_lookups, c_output>>
cacheVars == <<c_store, c_source_df, c_target_df,
               source_table_db_mapping, target_table_db_mapping, c_pc,
               mapVars>>

setupVars == <<s_prev_output, s_prev_input, s_new_input, s_pc>>

javaVars == <<java_process, java_writes, written_files, fs_events, observing,
              handler_file, json_queue, unfinished_tasks, processed_files,
              results, worker_pc, worker_file, main_pc, remaining_files>>

vars == <<winVars, planVars, runVars, levelVars, killVars, pipeVars,
          cacheVars, setupVars, javaVars>>

(***************************************************************************)
(* SpecWindows.                                                            *)
(***************************************************************************)
WinIdle ==
    /\ w_start = 0 /\ w_end = 0 /\ w_windows = <<>> /\ w_pc = "off"

WinInit ==
    /\ w_start \in 0..MaxDay
    /\ w_end \in 0..MaxDay
    /\ w_start <= w_end
    /\ w_windows = <<>>
    /\ w_pc = "call"

\* list(generate_30d_batches(start, end))
GenerateWindows ==
    /\ w_pc = "call"
    /\ w_windows' = generate_30d_batches(w_start, w_end)
    /\ w_pc' = "done"
    /\ UNCHANGED <<w_start, w_end>>

(***************************************************************************)
(* SpecPlan.                                                               *)
(***************************************************************************)
\* a DoneRecord: the columns of done.csv
DoneRecord(db, table, batch_number, batch_size, day) ==
    [target_db |-> db, target_table |-> table, batch_number |-> batch_number,
     batch_size |-> batch_size, processed_date |-> day]

PlanIdle ==
    /\ p_param = <<>> /\ p_done = <<>> /\ p_size = 1
    /\ p_batches = <<>> /\ p_pc = "off"

PlanInit ==
    /\ p_param \in SeqsUpTo(ParamRows, MaxParamLen)
    /\ \E rows \in SeqsUpTo(ParamRows, MaxPlanDone) :
          p_done = [i \in DOMAIN rows |->
              DoneRecord(rows[i].target_db, rows[i].target_table, 1, 1, 0)]
    /\ p_size \in 1..MaxBatchSize
    /\ p_batches = <<>>
    /\ p_pc = "call"

\* db_batches = group_tables_by_db()
PlanBatches ==
    /\ p_pc = "call"
    /\ p_batches' = group_tables_by_db(p_param, p_done, p_size)
    /\ p_pc' = "done"
    /\ UNCHANGED <<p_param, p_done, p_size>>

(***************************************************************************)
(* Spec: runs of main.                                                     *)
(***************************************************************************)
START_DATE == 0
END_DATE == START_DATE + RangeDays
STATEMENT_TYPES == stmts
BATCH_SIZE == RunBatchSize

\* the date windows every batch of a run loops over
Windows == generate_30d_batches(START_DATE, END_DATE)

\* os.path.exists of <stmt>_queries.csv: every to_csv call in append mode
\* creates the file, so the file exists once a chunk was written
OutfileExists(stmt) == outfile[stmt] # <<>>

\* the batch and statement type the loops are at
CurStmt == STATEMENT_TYPES[si]
CurDb == db_batches[di].db
CurBatch == db_batches[di].batches[bi]

RunIdle ==
    /\ param = <<>> /\ stmts = <<>> /\ done = <<>> /\ completed = FALSE
    /\ outfile = <<>>
    /\ pc = "off" /\ run = 0 /\ total_tables = 0 /\ db_batches = <<>>
    /\ si = 0 /\ di = 0 /\ bi = 0 /\ wi = 0
    /\ written_flags = FALSE /\ processed_batches = 0
    /\ failed_batches = <<>> /\ error = "none"
    /\ queries = <<>> /\ marked = <<>> /\ done_at_start = <<>>
    /\ backend_errors = 0

\* before the first run: a param.csv and a STATEMENT_TYPES list are drawn,
\* done.csv, completed.txt and the output files do not exist yet
RunInit ==
    /\ param \in RunParamLists
    /\ stmts \in StatementTypeLists
    /\ done = <<>>
    /\ completed = FALSE
    /\ outfile = [s \in StatementTypeNames |-> <<>>]
    /\ pc = "idle" /\ run = 0 /\ total_tables = 0 /\ db_batches = <<>>
    /\ si = 0 /\ di = 0 /\ bi = 0 /\ wi = 0
    /\ written_flags = FALSE /\ processed_batches = 0
    /\ failed_batches = <<>> /\ error = "none"
    /\ queries = <<>> /\ marked = <<>> /\ done_at_start = <<>>
    /\ backend_errors = 0

\* main, lines 326-328: completed.txt exists, the run returns at once
MainAlreadyCompleted ==
    /\ pc = "idle" /\ run < MaxRuns
    /\ completed
    /\ run' = run + 1
    /\ queries' = <<>> /\ marked' = <<>> /\ done_at_start' = done
    /\ db_batches' = <<>> /\ failed_batches' = <<>> /\ processed_batches' = 0
    /\ UNCHANGED <<durableVars, pc, total_tables, si, di, bi, wi,
                   written_flags, error, backend_errors>>

\* the loop header "for start_dt, end_dt in generate_30d_batches(...)" of
\* a batch that is entered: the first window, or the end of the loop
EnterBatchPc == IF Windows = <<>> THEN "batch_ok" ELSE "fetch"

\* MainStart without the test of completed.txt at lines 326-328: the run
\* plans and extracts whether or not the marker exists
MainStart_ignores_marker ==
    /\ pc = "idle" /\ run < MaxRuns
    /\ run' = run + 1
    /\ total_tables' = Len(param)
    /\ queries' = <<>> /\ marked' = <<>> /\ done_at_start' = done
    /\ failed_batches' = <<>> /\ error' = "none"
    /\ LET planned == group_tables_by_db(param, done, BATCH_SIZE)
       IN  /\ db_batches' = planned
           /\ IF planned = <<>>
              THEN /\ pc' = "check"
                   /\ processed_batches' = 0
                   /\ UNCHANGED <<si, di, bi, wi, written_flags>>
              ELSE /\ pc' = EnterBatchPc
                   /\ si' = 1 /\ di' = 1 /\ bi' = 1 /\ wi' = 1
                   /\ written_flags' = ~OutfileExists(STATEMENT_TYPES[1])
                   /\ processed_batches' = 1
    /\ UNCHANGED <<durableVars, backend_errors>>

\* main up to the first batch: total_tables, group_tables_by_db, the first
\* statement type's written_flags, the first batch's processed_batches += 1
MainStart ==
    /\ pc = "idle" /\ run < MaxRuns
    /\ ~completed
    /\ run' = run + 1
    /\ total_tables' = Len(param)
    /\ queries' = <<>> /\ marked' = <<>> /\ done_at_start' = done
    /\ failed_batches' = <<>> /\ error' = "none"
    /\ LET planned == group_tables_by_db(param, done, BATCH_SIZE)
       IN  /\ db_batches' = planned
           /\ IF planned = <<>>
              THEN /\ pc' = "check"
                   /\ processed_batches' = 0
                   /\ UNCHANGED <<si, di, bi, wi, written_flags>>
              ELSE /\ pc' = EnterBatchPc
                   /\ si' = 1 /\ di' = 1 /\ bi' = 1 /\ wi' = 1
                   /\ written_flags' = ~OutfileExists(STATEMENT_TYPES[1])
                   /\ processed_batches' = 1
    /\ UNCHANGED <<durableVars, backend_errors>>

\* a call of fetch_batch and what it returned
Query(outcome) ==
    [stmt |-> CurStmt, db |-> CurDb, batch_number |-> CurBatch.batch_number,
     tables |-> CurBatch.tables, start_dt |-> Windows[wi].start_dt,
     end_dt |-> Windows[wi].end_dt, outcome |-> outcome]

\* FetchRows without the assignment written_flags[stmt] = False of line 228
FetchRows_keeps_flag ==
    /\ pc = "fetch"
    /\ queries' = Append(queries, Query("ROWS"))
    /\ outfile' = [outfile EXCEPT ![CurStmt] = Append(@,
           [header |-> written_flags, db |-> CurDb,
            batch_number |-> CurBatch.batch_number,
            tables |-> CurBatch.tables, start_dt |-> Windows[wi].start_dt])]
    /\ IF wi < Len(Windows)
       THEN /\ wi' = wi + 1
            /\ pc' = "fetch"
       ELSE /\ pc' = "batch_ok"
            /\ UNCHANGED wi
    /\ UNCHANGED <<param, stmts, done, completed, run, total_tables,
                   db_batches, si, di, bi, written_flags, processed_batches,
                   failed_batches, error, marked, done_at_start,
                   backend_errors>>

\* FetchRows keeping the DataFrame in memory: the query is issued and the
\* loop goes on, nothing is appended to the output file
FetchRows_in_memory ==
    /\ pc = "fetch"
    /\ queries' = Append(queries, Query("ROWS"))
    /\ IF wi < Len(Windows)
       THEN /\ wi' = wi + 1
            /\ pc' = "fetch"
       ELSE /\ pc' = "batch_ok"
            /\ UNCHANGED wi
    /\ UNCHANGED <<durableVars, run, total_tables, db_batches, si, di, bi,
                   written_flags, processed_batches, failed_batches, error,
                   marked, done_at_start, backend_errors>>

\* fetch_batch returns a DataFrame: lines 223-230 append it to the output
\* file, with the header if written_flags says so, and the loop goes on
FetchRows ==
    /\ pc = "fetch"
    /\ queries' = Append(queries, Query("ROWS"))
    /\ outfile' = [outfile EXCEPT ![CurStmt] = Append(@,
           [header |-> written_flags, db |-> CurDb,
            batch_number |-> CurBatch.batch_number,
            tables |-> CurBatch.tables, start_dt |-> Windows[wi].start_dt])]
    /\ written_flags' = FALSE
    /\ IF wi < Len(Windows)
       THEN /\ wi' = wi + 1
            /\ pc' = "fetch"
       ELSE /\ pc' = "batch_ok"
            /\ UNCHANGED wi
    /\ UNCHANGED <<param, stmts, done, completed, run, total_tables,
                   db_batches, si, di, bi, processed_batches,
                   failed_batches, error, marked, done_at_start,
                   backend_errors>>

\* FetchSkip with `continue` in the place of `break`: after the skip the
\* loop goes on to the next window
FetchSkip_continues ==
    /\ pc = "fetch"
    /\ backend_errors < MaxBackendErrors
    /\ backend_errors' = backend_errors + 1
    /\ queries' = Append(queries, Query("SKIP"))
    /\ IF wi < Len(Windows)
       THEN /\ wi' = wi + 1
            /\ pc' = "fetch"
       ELSE /\ pc' = "batch_ok"
            /\ UNCHANGED wi
    /\ UNCHANGED <<durableVars, run, total_tables, db_batches, si, di, bi,
                   written_flags, processed_batches, failed_batches, error,
                   marked, done_at_start>>

\* fetch_batch meets error -2646 or -3149, logs the skip and returns None;
\* process_batch_for_stmt breaks out of the loop over the windows and goes
\* on at lines 232-233
FetchSkip ==
    /\ pc = "fetch"
    /\ backend_errors < MaxBackendErrors
    /\ backend_errors' = backend_errors + 1
    /\ queries' = Append(queries, Query("SKIP"))
    /\ pc' = "batch_ok"
    /\ UNCHANGED <<durableVars, run, total_tables, db_batches, si, di, bi, wi,
                   written_flags, processed_batches, failed_batches, error,
                   marked, done_at_start>>

\* fetch_batch meets another pyodbc.Error and raises; lines 235-239 catch it
FetchFatal ==
    /\ pc = "fetch"
    /\ backend_errors < MaxBackendErrors
    /\ backend_errors' = backend_errors + 1
    /\ queries' = Append(queries, Query("FATAL"))
    /\ error' = "db_error"
    /\ pc' = "batch_failed"
    /\ UNCHANGED <<durableVars, run, total_tables, db_batches, si, di, bi, wi,
                   written_flags, processed_batches, failed_batches,
                   marked, done_at_start>>

\* the query times out: the driver raises a pyodbc.Error whose text has
\* neither "-2646" nor "-3149", fetch_batch logs it and raises (lines
\* 177-178), lines 235-239 catch it
FetchTimeout ==
    /\ pc = "fetch"
    /\ backend_errors < MaxBackendErrors
    /\ backend_errors' = backend_errors + 1
    /\ queries' = Append(queries, Query("TIMEOUT"))
    /\ error' = "timeout"
    /\ pc' = "batch_failed"
    /\ UNCHANGED <<durableVars, run, total_tables, db_batches, si, di, bi, wi,
                   written_flags, processed_batches, failed_batches,
                   marked, done_at_start>>

\* the loops of process_database_batches move on to the next batch, the
\* next database, the next statement type, or end
NextBatch ==
    IF bi < Len(db_batches[di].batches)
    THEN /\ bi' = bi + 1 /\ wi' = 1
         /\ pc' = EnterBatchPc
         /\ processed_batches' = processed_batches + 1
         /\ UNCHANGED <<si, di, written_flags>>
    ELSE IF di < Len(db_batches)
    THEN /\ di' = di + 1 /\ bi' = 1 /\ wi' = 1
         /\ pc' = EnterBatchPc
         /\ processed_batches' = processed_batches + 1
         /\ UNCHANGED <<si, written_flags>>
    ELSE IF si < Len(STATEMENT_TYPES)
    THEN /\ si' = si + 1 /\ di' = 1 /\ bi' = 1 /\ wi' = 1
         /\ pc' = EnterBatchPc
         /\ processed_batches' = processed_batches + 1
         /\ written_flags' = (outfile[STATEMENT_TYPES[si + 1]] = <<>>)
    ELSE /\ pc' = "check"
         /\ UNCHANGED <<si, di, bi, wi, written_flags, processed_batches>>

\* update_done_csv overlapping the call of the batch before: the content it
\* concatenates to is done.csv as it was read before that call's rewrite
update_done_csv_stale_read(store, db_name, batch_number, batch_tables, batch_size, day) ==
    LET new_rows == [i \in 1..Len(batch_tables) |->
            DoneRecord(db_name, batch_tables[i], batch_number, batch_size, day)]
    IN  done_at_start \o new_rows

\* update_done_csv writing df_new alone, without the read of done.csv and
\* the concat of lines 104-106
update_done_csv_overwrites(store, db_name, batch_number, batch_tables, batch_size, day) ==
    LET new_rows == [i \in 1..Len(batch_tables) |->
            DoneRecord(db_name, batch_tables[i], batch_number, batch_size, day)]
    IN  new_rows

\* update_done_csv: done.csv is read, one row per table of the batch is
\* concatenated to it, and the whole is written back
update_done_csv(store, db_name, batch_number, batch_tables, batch_size, day) ==
    LET new_rows == [i \in 1..Len(batch_tables) |->
            DoneRecord(db_name, batch_tables[i], batch_number, batch_size, day)]
    IN  store \o new_rows

\* process_batch_for_stmt returned (True, None): lines 281-284
BatchSucceeded ==
    /\ pc = "batch_ok"
    /\ done' = update_done_csv(done, CurDb, CurBatch.batch_number,
                               CurBatch.tables, CurBatch.batch_size, run)
    /\ marked' = Append(marked, [stmt |-> CurStmt, db |-> CurDb,
                                 batch_number |-> CurBatch.batch_number])
    /\ NextBatch
    /\ UNCHANGED <<param, stmts, completed, outfile, run, total_tables,
                   db_batches, failed_batches, error, queries, done_at_start,
                   backend_errors>>

\* BatchFailed with the failure leaving the loops of
\* process_database_batches: the batches after the failed one are dropped
BatchFailed_aborts ==
    /\ pc = "batch_failed"
    /\ failed_batches' = Append(failed_batches,
           [db |-> CurDb, batch |-> CurBatch.batch_number,
            tables |-> CurBatch.tables, error |-> error,
            statement |-> CurStmt])
    /\ error' = "none"
    /\ pc' = "check"
    /\ UNCHANGED <<durableVars, run, total_tables, db_batches, si, di, bi, wi,
                   written_flags, processed_batches,
                   queries, marked, done_at_start, backend_errors>>

\* process_batch_for_stmt returned (False, error_msg): lines 285-293
BatchFailed ==
    /\ pc = "batch_failed"
    /\ failed_batches' = Append(failed_batches,
           [db |-> CurDb, batch |-> CurBatch.batch_number,
            tables |-> CurBatch.tables, error |-> error,
            statement |-> CurStmt])
    /\ error' = "none"
    /\ NextBatch
    /\ UNCHANGED <<durableVars, run, total_tables, db_batches,
                   queries, marked, done_at_start, backend_errors>>

\* main, lines 342-352: the completion marker is written when done.csv
\* holds at least total_tables distinct tables
MainCheck ==
    /\ pc = "check"
    /\ LET final_processed == Cardinality(load_processed_tables(done))
       IN  completed' = (final_processed >= total_tables)
    /\ pc' = "idle"
    /\ UNCHANGED <<param, stmts, done, outfile, run, total_tables, db_batches,
                   si, di, bi, wi, written_flags, processed_batches,
                   failed_batches, error, recordVars, backend_errors>>

(***************************************************************************)
(* SpecLevels: the level orchestrator's frontier.                          *)
(***************************************************************************)
\* the (db, table) the levels' lists are drawn from, in a fixed order
LevelTables == <<<<"DB1", "T1">>, <<"DB1", "T2">>, <<"DB2", "T1">>>>
LevelTableSet == {LevelTables[i] : i \in DOMAIN LevelTables}
\* a row of a level's input_csv: the columns db, table
InputRow(t) == [db |-> t[1], table |-> t[2]]
\* a row of a level's final output, reduced to target_db, target_table
OutputRow(t) == [target_db |-> t[1], target_table |-> t[2]]

\* DataFrame.drop_duplicates: the first occurrence of every row is kept
drop_duplicates(rows) ==
    LET F[i \in 0..Len(rows)] ==
            IF i = 0 THEN <<>>
            ELSE IF \E j \in 1..(i - 1) : rows[j] = rows[i]
                 THEN F[i-1]
                 ELSE Append(F[i-1], rows[i])
    IN  F[Len(rows)]

\* setup_level_directory: the input_csv written for level_num.  The files
\* are held as their rows; a file of no rows is an empty DataFrame.
setup_level_directory(level_num, prev_output_df, prev_input_df, param_csv) ==
    IF level_num = 1
    THEN param_csv
    ELSE IF prev_output_df # <<>>
    THEN LET target_combinations == drop_duplicates(prev_output_df)
         IN  IF prev_input_df # <<>>
             THEN LET prev_input_combinations ==
                          {<<prev_input_df[i].db, prev_input_df[i].table>> :
                              i \in DOMAIN prev_input_df}
                      new_combinations == SelectSeq(target_combinations,
                          LAMBDA row : <<row.target_db, row.target_table>>
                                           \notin prev_input_combinations)
                  IN  [i \in DOMAIN new_combinations |->
                          [db    |-> new_combinations[i].target_db,
                           table |-> new_combinations[i].target_table]]
             ELSE [i \in DOMAIN target_combinations |->
                      [db    |-> target_combinations[i].target_db,
                       table |-> target_combinations[i].target_table]]
    ELSE <<>>

\* the final output of a level: for every table of the level's input, in
\* order, one row per target table the discovery graph gives for it
RECURSIVE LevelOutput(_, _, _)
LevelOutput(graph, input, i) ==
    IF i > Len(input) THEN <<>>
    ELSE LET found == SelectSeq(LevelTables,
                 LAMBDA t : t \in graph[<<input[i].db, input[i].table>>])
         IN  [k \in DOMAIN found |-> OutputRow(found[k])]
             \o LevelOutput(graph, input, i + 1)

LevelIdle ==
    /\ l_graph = <<>> /\ l_param = <<>> /\ level_inputs = <<>>
    /\ level_outputs = <<>> /\ l_pc = "off"

LevelInit ==
    /\ l_graph \in [LevelTableSet -> SUBSET LevelTableSet]
    /\ \E tables \in SeqsUpTo(LevelTableSet, MaxParamLen) :
          /\ tables # <<>>
          /\ l_param = [i \in DOMAIN tables |-> InputRow(tables[i])]
    /\ level_inputs = <<>>
    /\ level_outputs = <<>>
    /\ l_pc = "setup"

\* the level run_pipeline is at
level_num == Len(level_inputs)

\* run_pipeline, lines 74-90: the next level's directory is set up from the
\* previous level's final output and input
SetupLevel ==
    /\ l_pc = "setup"
    /\ Len(level_inputs) < MaxLevels
    /\ LET n == Len(level_inputs) + 1
           paths_input_csv ==
               IF n = 1
               THEN setup_level_directory(1, <<>>, <<>>, l_param)
               ELSE setup_level_directory(n, level_outputs[n - 1],
                                          level_inputs[n - 1], l_param)
       IN  level_inputs' = Append(level_inputs, paths_input_csv)
    /\ l_pc' = "steps"
    /\ UNCHANGED <<l_graph, l_param, level_outputs>>

\* RunLevelSteps in a loop `while True` in the place of
\* range(start_level, config.max_levels + 1): after every level another
\* one is set up
RunLevelSteps_unbounded ==
    /\ l_pc = "steps"
    /\ level_inputs[level_num] # <<>>
    /\ level_outputs' = Append(level_outputs,
           LevelOutput(l_graph, level_inputs[level_num], 1))
    /\ l_pc' = "setup"
    /\ UNCHANGED <<l_graph, l_param, level_inputs>>

\* run_pipeline, lines 100-227: the five steps of the level run through and
\* leave the level's final output
RunLevelSteps ==
    /\ l_pc = "steps"
    /\ level_inputs[level_num] # <<>>
    /\ level_outputs' = Append(level_outputs,
           LevelOutput(l_graph, level_inputs[level_num], 1))
    /\ l_pc' = IF level_num < MaxLevels THEN "setup" ELSE "completed"
    /\ UNCHANGED <<l_graph, l_param, level_inputs>>

\* run_pipeline, lines 114-143: for an empty input list the extraction
\* writes no <stmt>_queries.csv, step 1 raises "No extraction output files
\* found" and the pipeline stops
LevelStepFails ==
    /\ l_pc = "steps"
    /\ level_inputs[level_num] = <<>>
    /\ l_pc' = "stopped"
    /\ UNCHANGED <<l_graph, l_param, level_inputs, level_outputs>>

(***************************************************************************)
(* SpecSetup: setup_level_directory applied to a drawn previous level.     *)
(***************************************************************************)
\* the target_db values of a level's final output: a database, or the
\* "Unknown" that map_table_to_db writes for a table whose lookup failed
TargetDbs == {"DB1", "Unknown"}
SetupTables == {"T1", "T2"}
\* the rows of a previous level's final output and of its input_csv
PrevOutputRows == [target_db : TargetDbs, target_table : SetupTables]
PrevInputRows == [db : {"DB1"}, table : SetupTables]

SetupIdle ==
    /\ s_prev_output = <<>> /\ s_prev_input = <<>> /\ s_new_input = <<>>
    /\ s_pc = "off"

SetupInit ==
    /\ s_prev_output \in SeqsUpTo(PrevOutputRows, MaxSetupRows)
    /\ s_prev_input \in SeqsUpTo(PrevInputRows, MaxSetupRows)
    /\ s_new_input = <<>>
    /\ s_pc = "call"

\* setup_level_directory(level_num, prev_output_csv, prev_input_csv) for a
\* level_num above 1: new_input_df is written to the level's input_csv
SetupNextLevel ==
    /\ s_pc = "call"
    /\ s_new_input' =
           setup_level_directory(2, s_prev_output, s_prev_input, <<>>)
    /\ s_pc' = "done"
    /\ UNCHANGED <<s_prev_output, s_prev_input>>

(***************************************************************************)
(* SpecJava: ConcurrentJavaPythonPipeline.run_concurrent_pipeline, with    *)
(* the observer's thread, the worker threads and the main thread taking    *)
(* their steps in any order.                                               *)
(***************************************************************************)
JsonFiles == {"a.json", "b.json"}
Workers == 1..max_workers

JavaIdle ==
    /\ java_process = "off" /\ java_writes = 0 /\ written_files = {}
    /\ fs_events = <<>> /\ observing = FALSE /\ handler_file = "none"
    /\ json_queue = <<>> /\ unfinished_tasks = 0
    /\ processed_files = {} /\ results = <<>>
    /\ worker_pc = <<>> /\ worker_file = <<>>
    /\ main_pc = "off" /\ remaining_files = <<>>

\* run_concurrent_pipeline, lines 223-245: results and processed_files
\* cleared, the output directory emptied, the observer started, the workers
\* started; java_process is still the None of __init__
JavaInit ==
    /\ java_process = "None" /\ java_writes = 0 /\ written_files = {}
    /\ fs_events = <<>> /\ observing = TRUE /\ handler_file = "none"
    /\ json_queue = <<>> /\ unfinished_tasks = 0
    /\ processed_files = {} /\ results = <<>>
    /\ worker_pc = [w \in Workers |-> "get"]
    /\ worker_file = [w \in Workers |-> "none"]
    /\ main_pc = "start" /\ remaining_files = <<>>

\* run_java_async, lines 83-122: Popen succeeded
JavaStarts ==
    /\ main_pc = "start"
    /\ java_process' = "running"
    /\ main_pc' = "monitor"
    /\ UNCHANGED <<java_writes, written_files, fs_events, observing,
                   handler_file, json_queue, unfinished_tasks,
                   processed_files, results, worker_pc, worker_file,
                   remaining_files>>

\* run_java_async, lines 124-126, and run_concurrent_pipeline, lines
\* 249-251: Popen raised, the call returns None through its finally block
JavaFailsToStart ==
    /\ main_pc = "start"
    /\ main_pc' = "finally"
    /\ UNCHANGED <<java_process, java_writes, written_files, fs_events,
                   observing, handler_file, json_queue, unfinished_tasks,
                   processed_files, results, worker_pc, worker_file,
                   remaining_files>>

\* the Java process writes a file of the output directory: the observer
\* receives a created event for a new file, a modified event for a file
\* written before
JavaWritesFile(f) ==
    /\ java_process = "running"
    /\ java_writes < MaxJavaWrites
    /\ java_writes' = java_writes + 1
    /\ written_files' = written_files \cup {f}
    /\ fs_events' =
           IF observing
           THEN Append(fs_events,
                       [kind |-> IF f \in written_files THEN "modified"
                                 ELSE "created",
                        file |-> f])
           ELSE fs_events
    /\ UNCHANGED <<java_process, observing, handler_file, json_queue,
                   unfinished_tasks, processed_files, results, worker_pc,
                   worker_file, main_pc, remaining_files>>

\* the Java process exits by itself
JavaExits ==
    /\ java_process = "running"
    /\ java_process' = "exited"
    /\ UNCHANGED <<java_writes, written_files, fs_events, observing,
                   handler_file, json_queue, unfinished_tasks,
                   processed_files, results, worker_pc, worker_file,
                   main_pc, remaining_files>>

\* JSONFileHandler.on_created and on_modified up to their test of
\* processed_files (lines 26-31, 36-40): the observer's thread takes its
\* next event; _is_file_complete (lines 44-52) answers for the file
HandleEvent(kind) ==
    /\ observing /\ handler_file = "none"
    /\ fs_events # <<>> /\ Head(fs_events).kind = kind
    /\ fs_events' = Tail(fs_events)
    /\ \E complete \in BOOLEAN :
          handler_file' =
              IF complete /\ Head(fs_events).file \notin processed_files
              THEN Head(fs_events).file
              ELSE "none"
    /\ UNCHANGED <<java_process, java_writes, written_files, observing,
                   json_queue, unfinished_tasks, processed_files, results,
                   worker_pc, worker_file, main_pc, remaining_files>>

on_created ==
    HandleEvent("created")

on_modified ==
    HandleEvent("modified")

\* lines 32 and 41: self.json_queue.put(file_path)
HandlerPuts ==
    /\ handler_file # "none"
    /\ json_queue' = Append(json_queue, handler_file)
    /\ unfinished_tasks' = unfinished_tasks + 1
    /\ handler_file' = "none"
    /\ UNCHANGED <<java_process, java_writes, written_files, fs_events,
                   observing, processed_files, results, worker_pc,
                   worker_file, main_pc, remaining_files>>

\* json_processor_worker, lines 198-200: get returns an item; the poison
\* pill None ends the worker
WorkerGet(w) ==
    /\ worker_pc[w] = "get"
    /\ json_queue # <<>>
    /\ json_queue' = Tail(json_queue)
    /\ IF Head(json_queue) = "None"
       THEN /\ worker_pc' = [worker_pc EXCEPT ![w] = "exited"]
            /\ UNCHANGED worker_file
       ELSE /\ worker_pc' = [worker_pc EXCEPT ![w] = "task"]
            /\ worker_file' = [worker_file EXCEPT ![w] = Head(json_queue)]
    /\ UNCHANGED <<java_process, java_writes, written_files, fs_events,
                   observing, handler_file, unfinished_tasks,
                   processed_files, results, main_pc, remaining_files>>

\* lines 205-210: get(timeout=timeout) raised Empty while java_process is
\* None or has exited (while it runs the worker goes back to get)
WorkerGetTimesOut(w) ==
    /\ worker_pc[w] = "get"
    /\ json_queue = <<>>
    /\ java_process # "running"
    /\ worker_pc' = [worker_pc EXCEPT ![w] = "drain"]
    /\ UNCHANGED <<java_process, java_writes, written_files, fs_events,
                   observing, handler_file, json_queue, unfinished_tasks,
                   processed_files, results, worker_file, main_pc,
                   remaining_files>>

\* lines 212-213: get_nowait returns an item; process_json_file(None)
\* raises out of its own except block and ends the thread
WorkerDrainGet(w) ==
    /\ worker_pc[w] = "drain"
    /\ json_queue # <<>>
    /\ json_queue' = Tail(json_queue)
    /\ IF Head(json_queue) = "None"
       THEN /\ worker_pc' = [worker_pc EXCEPT ![w] = "exited"]
            /\ UNCHANGED worker_file
       ELSE /\ worker_pc' = [worker_pc EXCEPT ![w] = "drain_task"]
            /\ worker_file' = [worker_file EXCEPT ![w] = Head(json_queue)]
    /\ UNCHANGED <<java_process, java_writes, written_files, fs_events,
                   observing, handler_file, unfinished_tasks,
                   processed_files, results, main_pc, remaining_files>>

\* lines 216-217: get_nowait raised Empty, the worker ends
WorkerDrainEmpty(w) ==
    /\ worker_pc[w] = "drain"
    /\ json_queue = <<>>
    /\ worker_pc' = [worker_pc EXCEPT ![w] = "exited"]
    /\ UNCHANGED <<java_process, java_writes, written_files, fs_events,
                   observing, handler_file, json_queue, unfinished_tasks,
                   processed_files, results, worker_file, main_pc,
                   remaining_files>>

\* process_json_file, lines 128-158: the file joins processed_files and
\* results, or a caught exception leaves both alone
process_json_file(file, ok) ==
    /\ processed_files' = IF ok THEN processed_files \cup {file}
                          ELSE processed_files
    /\ results' = IF ok THEN Append(results, file) ELSE results

\* lines 202-203 and 214-215: process_json_file, then task_done
WorkerProcesses(w) ==
    /\ worker_pc[w] \in {"task", "drain_task"}
    /\ \E ok \in BOOLEAN : process_json_file(worker_file[w], ok)
    /\ unfinished_tasks' = unfinished_tasks - 1
    /\ worker_pc' = [worker_pc EXCEPT
                        ![w] = IF worker_pc[w] = "task" THEN "get"
                               ELSE "drain"]
    /\ worker_file' = [worker_file EXCEPT ![w] = "none"]
    /\ UNCHANGED <<java_process, java_writes, written_files, fs_events,
                   observing, handler_file, json_queue, main_pc,
                   remaining_files>>

\* run_concurrent_pipeline, lines 257-261 and 272: poll() is not None
MainJavaCompleted ==
    /\ main_pc = "monitor"
    /\ java_process = "exited"
    /\ main_pc' = "drain"
    /\ UNCHANGED <<java_process, java_writes, written_files, fs_events,
                   observing, handler_file, json_queue, unfinished_tasks,
                   processed_files, results, worker_pc, worker_file,
                   remaining_files>>

\* line 257: max_wait_time has elapsed while the Java process runs
MainWaitTimeElapsed ==
    /\ main_pc = "monitor"
    /\ java_process = "running"
    /\ main_pc' = "drain"
    /\ UNCHANGED <<java_process, java_writes, written_files, fs_events,
                   observing, handler_file, json_queue, unfinished_tasks,
                   processed_files, results, worker_pc, worker_file,
                   remaining_files>>

\* lines 276-278: remaining_files.append(self.json_queue.get_nowait())
MainDrainGet ==
    /\ main_pc = "drain"
    /\ json_queue # <<>>
    /\ json_queue' = Tail(json_queue)
    /\ remaining_files' = Append(remaining_files, Head(json_queue))
    /\ UNCHANGED <<java_process, java_writes, written_files, fs_events,
                   observing, handler_file, unfinished_tasks,
                   processed_files, results, worker_pc, worker_file,
                   main_pc>>

\* lines 279-280: get_nowait raised Empty
MainDrainEmpty ==
    /\ main_pc = "drain"
    /\ json_queue = <<>>
    /\ main_pc' = "remaining"
    /\ UNCHANGED <<java_process, java_writes, written_files, fs_events,
                   observing, handler_file, json_queue, unfinished_tasks,
                   processed_files, results, worker_pc, worker_file,
                   remaining_files>>

\* lines 282-285: process_json_file for the next of remaining_files
MainProcessRemaining ==
    /\ main_pc = "remaining"
    /\ remaining_files # <<>>
    /\ \E ok \in BOOLEAN : process_json_file(Head(remaining_files), ok)
    /\ remaining_files' = Tail(remaining_files)
    /\ UNCHANGED <<java_process, java_writes, written_files, fs_events,
                   observing, handler_file, json_queue, unfinished_tasks,
                   worker_pc, worker_file, main_pc>>

\* line 288: the main thread calls json_queue.join()
MainReachesJoin ==
    /\ main_pc = "remaining"
    /\ remaining_files = <<>>
    /\ main_pc' = "join"
    /\ UNCHANGED <<java_process, java_writes, written_files, fs_events,
                   observing, handler_file, json_queue, unfinished_tasks,
                   processed_files, results, worker_pc, worker_file,
                   remaining_files>>

\* Queue.join returns when the count of unfinished tasks is zero
MainJoinReturns ==
    /\ main_pc = "join"
    /\ unfinished_tasks = 0
    /\ main_pc' = "finally"
    /\ UNCHANGED <<java_process, java_writes, written_files, fs_events,
                   observing, handler_file, json_queue, unfinished_tasks,
                   processed_files, results, worker_pc, worker_file,
                   remaining_files>>

RECURSIVE PoisonPills(_)
PoisonPills(n) ==
    IF n = 0 THEN <<>> ELSE Append(PoisonPills(n - 1), "None")

\* lines 290-305: the observer stopped and joined, one poison pill per
\* worker, the Java process terminated if it still runs, results returned
MainFinally ==
    /\ main_pc = "finally"
    /\ handler_file = "none"
    /\ observing' = FALSE
    /\ fs_events' = <<>>
    /\ json_queue' = json_queue \o PoisonPills(max_workers)
    /\ unfinished_tasks' = unfinished_tasks + max_workers
    /\ java_process' = IF java_process = "running" THEN "exited"
                       ELSE java_process
    /\ main_pc' = "returned"
    /\ UNCHANGED <<java_writes, written_files, handler_file,
                   processed_files, results, worker_pc, worker_file,
                   remaining_files>>

(***************************************************************************)
(* SpecKill: one call of update_done_csv, step by step, in a process that  *)
(* can be killed at any point of the call.  The file is held as the rows   *)
(* that have reached it.                                                   *)
(***************************************************************************)
KillIdle ==
    /\ k_before = <<>> /\ k_db = "none" /\ k_tables = <<>>
    /\ k_combined = <<>> /\ k_file = <<>> /\ k_pc = "off"

KillInit ==
    /\ \E rows \in SeqsUpTo(ParamRows, MaxStoreLen) :
          k_before = [i \in DOMAIN rows |->
              DoneRecord(rows[i].target_db, rows[i].target_table, 1, 1, 0)]
    /\ k_db \in Databases
    /\ k_tables \in SeqsUpTo(TableNames, MaxMarkedTables) \ {<<>>}
    /\ k_combined = <<>>
    /\ k_file = k_before
    /\ k_pc = "call"

\* update_done_csv, lines 90-108: new_rows, the read of done.csv and the
\* concat give df_combined
ReadAndConcat ==
    /\ k_pc = "call"
    /\ k_combined' = update_done_csv(k_file, k_db, 1, k_tables,
                                     Len(k_tables), 1)
    /\ k_pc' = "open"
    /\ UNCHANGED <<k_before, k_db, k_tables, k_file>>

\* line 110, to_csv(DONE_CSV): the file is opened for writing, which
\* truncates it
OpenDoneCsv ==
    /\ k_pc = "open"
    /\ k_file' = <<>>
    /\ k_pc' = "write"
    /\ UNCHANGED <<k_before, k_db, k_tables, k_combined>>

\* line 110: the next row of df_combined reaches the file
WriteDoneRow ==
    /\ k_pc = "write"
    /\ Len(k_file) < Len(k_combined)
    /\ k_file' = Append(k_file, k_combined[Len(k_file) + 1])
    /\ UNCHANGED <<k_before, k_db, k_tables, k_combined, k_pc>>

\* line 110: every row is written, the file is closed and the call returns
CloseDoneCsv ==
    /\ k_pc = "write"
    /\ Len(k_file) = Len(k_combined)
    /\ k_pc' = "returned"
    /\ UNCHANGED <<k_before, k_db, k_tables, k_combined, k_file>>

\* the process is killed while update_done_csv is executing: the file
\* stays as it is at that point
KillProcess ==
    /\ k_pc \in {"call", "open", "write"}
    /\ k_pc' = "killed"
    /\ UNCHANGED <<k_before, k_db, k_tables, k_combined, k_file>>

(***************************************************************************)
(* SpecPipeline: runs of main_1 / run_pipeline over the levels and their   *)
(* five steps, with the checkpoint file and the artifacts of the steps.    *)
(***************************************************************************)
Levels == 1..MaxLevels
Steps == 1..5

\* what a step leaves in the level's directories: 1 the extracted queries
\* file, 2 the parsed directory's content, 3 the merged output, 4 the
\* mapped output (and the global show-table file)
StepArtifact(step) ==
    CASE step = 1 -> {"extracted_csv"}
      [] step = 2 -> {"parsed_output_dir"}
      [] step = 3 -> {"merged_output"}
      [] step = 4 -> {"mapped_output_file"}
      [] OTHER -> {}
ArtifactNames == UNION {StepArtifact(step) : step \in Steps}

\* the artifacts the steps before start_step are expected to have left
ExpectedArtifacts(start_step) ==
    UNION {StepArtifact(step) : step \in 1..(start_step - 1)}

PipeIdle ==
    /\ cfg_start_level = 0 /\ checkpoint = <<>> /\ artifacts = <<>>
    /\ show_table_file = FALSE
    /\ m_pc = "off" /\ m_run = 0 /\ start_from = <<>>
    /\ cur_level = 0 /\ current_step = 0
    /\ executed = <<>> /\ missing_at_resume = FALSE /\ lost = 0

\* before the first run: no checkpoint file, no artifact
PipeInit ==
    /\ cfg_start_level \in Levels
    /\ checkpoint = <<>>
    /\ artifacts = [l \in Levels |-> {}]
    /\ show_table_file = FALSE
    /\ m_pc = "idle" /\ m_run = 0 /\ start_from = <<>>
    /\ cur_level = 0 /\ current_step = 0
    /\ executed = <<>> /\ missing_at_resume = FALSE /\ lost = 0

\* start_level of a main_1 that calls run_pipeline() whether or not the
\* checkpoint file exists
start_level_from_config(from) ==
    cfg_start_level

\* run_pipeline, line 72
start_level(from) ==
    IF from # <<>> THEN from[1] ELSE cfg_start_level

\* start_step with the test "level_num == start_from_level" left out:
\* every level of a resumed run starts at start_from_step
start_step_every_level(from, lvl) ==
    IF from # <<>> THEN from[2] ELSE 1

\* run_pipeline, line 94
start_step(from, lvl) ==
    IF from # <<>> /\ lvl = from[1] THEN from[2] ELSE 1

\* update_paths_for_resumption raises FileNotFoundError: lines 245-254
ResumptionFails(from) ==
    /\ from # <<>>
    /\ start_step(from, from[1]) > 4
    /\ ~show_table_file

\* an artifact that the steps skipped by a resume are expected to have
\* left is missing
ArtifactMissing(from) ==
    /\ from # <<>>
    /\ \/ ExpectedArtifacts(from[2]) \ artifacts[from[1]] # {}
       \/ from[2] > 4 /\ ~show_table_file

\* main_1, lines 266-281, and run_pipeline up to the first step to execute:
\* the checkpoint file, when it exists, gives start_from_level and
\* start_from_step; the level's directory is set up and, for a start step
\* above 1, update_paths_for_resumption fills in the paths
Main1 ==
    /\ m_pc = "idle" /\ m_run < MaxPipelineRuns
    /\ ~ResumptionFails(checkpoint)
    /\ m_run' = m_run + 1
    /\ start_from' = checkpoint
    /\ cur_level' = start_level(checkpoint)
    /\ current_step' = start_step(checkpoint, start_level(checkpoint))
    /\ executed' = <<>>
    /\ missing_at_resume' = ArtifactMissing(checkpoint)
    /\ m_pc' = "step"
    /\ UNCHANGED <<cfg_start_level, checkpoint, artifacts, show_table_file,
                   lost>>

\* main_1 resuming at step 5 without global_show_table.csv:
\* update_paths_for_resumption raises FileNotFoundError, nothing catches
\* it and the process ends before any step
Main1ResumeFails ==
    /\ m_pc = "idle" /\ m_run < MaxPipelineRuns
    /\ ResumptionFails(checkpoint)
    /\ m_run' = m_run + 1
    /\ start_from' = checkpoint
    /\ cur_level' = start_level(checkpoint)
    /\ current_step' = start_step(checkpoint, start_level(checkpoint))
    /\ executed' = <<>>
    /\ missing_at_resume' = ArtifactMissing(checkpoint)
    /\ m_pc' = "idle"
    /\ UNCHANGED <<cfg_start_level, checkpoint, artifacts, show_table_file,
                   lost>>

\* save_checkpoint: the file is overwritten with level and step
save_checkpoint(level, step) == <<level, step>>

\* run_pipeline after a step of the level: the next step, the next level
\* from its start step, or the end of the pipeline
NextStep ==
    IF current_step < 5
    THEN /\ current_step' = current_step + 1
         /\ UNCHANGED <<cur_level, m_pc>>
    ELSE IF cur_level < MaxLevels
    THEN /\ cur_level' = cur_level + 1
         /\ current_step' = start_step(start_from, cur_level + 1)
         /\ UNCHANGED m_pc
    ELSE /\ m_pc' = "idle"
         /\ UNCHANGED <<cur_level, current_step>>

\* the body of a step runs through: its artifact is on disk, and
\* save_checkpoint(level_num, current_step) is called.  Step 4 reads the
\* merged output (map_table_to_db, pd.read_csv(input_file)), so it runs
\* through only if that file exists; it leaves global_show_table.csv.
StepCompletes ==
    /\ m_pc = "step"
    /\ current_step = 4 => "merged_output" \in artifacts[cur_level]
    /\ executed' = Append(executed,
           [level |-> cur_level, step |-> current_step, ok |-> TRUE])
    /\ artifacts' = [artifacts EXCEPT
           ![cur_level] = @ \cup StepArtifact(current_step)]
    /\ show_table_file' = (show_table_file \/ current_step = 4)
    /\ checkpoint' = save_checkpoint(cur_level, current_step)
    /\ NextStep
    /\ UNCHANGED <<cfg_start_level, m_run, start_from, missing_at_resume,
                   lost>>

\* StepRaises with the `return` after handle_error left out: the pipeline
\* goes on to the next step
StepRaises_continues ==
    /\ m_pc = "step"
    /\ executed' = Append(executed,
           [level |-> cur_level, step |-> current_step, ok |-> FALSE])
    /\ NextStep
    /\ UNCHANGED <<cfg_start_level, checkpoint, artifacts, show_table_file,
                   m_run, start_from, missing_at_resume, lost>>

\* StepRaises with `continue` in the place of `return` after handle_error:
\* the rest of the level is left out and the next level is started
StepRaises_next_level ==
    /\ m_pc = "step"
    /\ executed' = Append(executed,
           [level |-> cur_level, step |-> current_step, ok |-> FALSE])
    /\ IF cur_level < MaxLevels
       THEN /\ cur_level' = cur_level + 1
            /\ current_step' = 1
            /\ UNCHANGED m_pc
       ELSE /\ m_pc' = "idle"
            /\ UNCHANGED <<cur_level, current_step>>
    /\ UNCHANGED <<cfg_start_level, checkpoint, artifacts, show_table_file,
                   m_run, start_from, missing_at_resume, lost>>

\* StepRaises with save_checkpoint called for the step that raised
StepRaises_checkpoints ==
    /\ m_pc = "step"
    /\ executed' = Append(executed,
           [level |-> cur_level, step |-> current_step, ok |-> FALSE])
    /\ checkpoint' = save_checkpoint(cur_level, current_step)
    /\ m_pc' = "idle"
    /\ UNCHANGED <<cfg_start_level, artifacts, show_table_file,
                   m_run, start_from, cur_level, current_step,
                   missing_at_resume, lost>>

\* the body of a step raises: handle_error prints and run_pipeline returns
StepRaises ==
    /\ m_pc = "step"
    /\ executed' = Append(executed,
           [level |-> cur_level, step |-> current_step, ok |-> FALSE])
    /\ m_pc' = "idle"
    /\ UNCHANGED <<cfg_start_level, checkpoint, artifacts, show_table_file,
                   m_run, start_from, cur_level, current_step,
                   missing_at_resume, lost>>

\* between two runs an artifact of a level, or global_show_table.csv, is
\* removed from the disk
ArtifactLost ==
    /\ m_pc = "idle" /\ lost < MaxLostArtifacts
    /\ lost' = lost + 1
    /\ \/ /\ \E l \in Levels : \E a \in artifacts[l] :
                artifacts' = [artifacts EXCEPT ![l] = @ \ {a}]
          /\ UNCHANGED show_table_file
       \/ /\ show_table_file
          /\ show_table_file' = FALSE
          /\ UNCHANGED artifacts
    /\ UNCHANGED <<cfg_start_level, checkpoint, m_pc, m_run, start_from,
                   cur_level, current_step, executed, missing_at_resume>>

(***************************************************************************)
(* SpecCache: the reader of the Global Dedup Cache in map_table_to_db.     *)
(* A dictionary is a function whose domain is its set of keys.             *)
(***************************************************************************)
CacheTables == {"T1", "T2"}
\* a record of the mapping_output file: the columns table_name,
\* database_name
CacheRecords ==
    [table_name : CacheTables, database_name : Databases \cup {"Unknown"}]

\* all dictionaries with keys in K and values in V
Dicts(K, V) == UNION {[S -> V] : S \in SUBSET K}

\* mapping[key] = value
DictPut(mapping, key, value) ==
    [k \in DOMAIN mapping \cup {key} |->
        IF k = key THEN value ELSE mapping[k]]

\* a reader that takes a record only if its database_name is a database:
\* an "Unknown" record leaves the table without a mapping
RECURSIVE load_existing_mappings_skips_unknown(_, _, _)
load_existing_mappings_skips_unknown(mapping, existing_mapping_df, i) ==
    IF i > Len(existing_mapping_df) THEN mapping
    ELSE LET row == existing_mapping_df[i]
         IN  load_existing_mappings_skips_unknown(
                 IF /\ row.table_name \notin DOMAIN mapping
                    /\ row.database_name # "Unknown"
                 THEN DictPut(mapping, row.table_name, row.database_name)
                 ELSE mapping,
                 existing_mapping_df, i + 1)

\* map_table_to_db, lines 74-80, for one of the two dictionaries: row after
\* row, a table that is not yet a key gets the row's database_name
RECURSIVE load_existing_mappings(_, _, _)
load_existing_mappings(mapping, existing_mapping_df, i) ==
    IF i > Len(existing_mapping_df) THEN mapping
    ELSE LET row == existing_mapping_df[i]
         IN  load_existing_mappings(
                 IF row.table_name \notin DOMAIN mapping
                 THEN DictPut(mapping, row.table_name, row.database_name)
                 ELSE mapping,
                 existing_mapping_df, i + 1)

\* no call of map_table_to_db beyond the load is in progress
MapIdle ==
    /\ c_df = <<>> /\ c_calls = 0 /\ c_store_at_start = <<>>
    /\ c_read_failed = FALSE
    /\ source_tables_needing_lookup = {}
    /\ target_tables_needing_lookup = {}
    /\ c_pending = {} /\ c_inflight = <<>> /\ c_lookups = <<>>
    /\ c_output = <<>>

CacheIdle ==
    /\ c_store = <<>> /\ c_source_df = <<>> /\ c_target_df = <<>>
    /\ source_table_db_mapping = <<>> /\ target_table_db_mapping = <<>>
    /\ c_pc = "off"
    /\ MapIdle

\* map_table_to_db at line 69: the dictionaries hold what lines 54-67 took
\* from the DataFrame.  The store is drawn with repeated tables: two
\* processes that both miss a table both append it, and a call whose read
\* of the file fails (lines 82-83) looks up and appends cached tables again.
CacheInit ==
    /\ c_store \in SeqsUpTo(CacheRecords, MaxCacheLen)
    /\ c_source_df \in Dicts(CacheTables, Databases)
    /\ c_target_df \in Dicts(CacheTables, Databases)
    /\ source_table_db_mapping = c_source_df
    /\ target_table_db_mapping = c_target_df
    /\ c_pc = "load"
    /\ MapIdle

\* map_table_to_db, lines 69-83: the existing mappings are loaded
LoadExistingMappings ==
    /\ c_pc = "load"
    /\ source_table_db_mapping' =
           load_existing_mappings(source_table_db_mapping, c_store, 1)
    /\ target_table_db_mapping' =
           load_existing_mappings(target_table_db_mapping, c_store, 1)
    /\ c_pc' = "loaded"
    /\ UNCHANGED <<c_store, c_source_df, c_target_df, mapVars>>

(***************************************************************************)
(* SpecMap: calls of map_table_to_db, one after the other, on a            *)
(* mapping_output file that does not exist before the first call.          *)
(***************************************************************************)
\* a row of the DataFrame read from input_file, reduced to the table and
\* database columns; "NaN" is a missing database
DfRows ==
    [source_table : CacheTables, source_db : {"DB1", "NaN"},
     target_table : CacheTables, target_db : {"DB1", "NaN"}]
\* the DataFrames drawn: one row
DataFrames == {<<row>> : row \in DfRows}

\* lines 57-60 and 64-67: the (table, db) pairs of the rows that have both,
\* in row order, assigned to the dictionary one after the other
RECURSIVE existing_mappings(_, _, _)
existing_mappings(mapping, pairs, i) ==
    IF i > Len(pairs) THEN mapping
    ELSE existing_mappings(
             IF pairs[i][2] # "NaN"
             THEN DictPut(mapping, pairs[i][1], pairs[i][2])
             ELSE mapping,
             pairs, i + 1)

source_pairs(df) == [k \in DOMAIN df |-> <<df[k].source_table, df[k].source_db>>]
target_pairs(df) == [k \in DOMAIN df |-> <<df[k].target_table, df[k].target_db>>]

\* what get_database_name can return: a database name, or None
LookupResults == Databases \cup {"None"}

\* map_table_to_db, lines 37-67: the DataFrame is read and the two
\* dictionaries are pre-filled from its labelled rows
StartCall ==
    /\ c_pc \in {"idle", "killed"} /\ c_calls < MaxMapCalls
    /\ c_calls' = c_calls + 1
    /\ \E df \in DataFrames :
          /\ c_df' = drop_duplicates(df)
          /\ c_source_df' = existing_mappings(<<>>, source_pairs(df), 1)
          /\ c_target_df' = existing_mappings(<<>>, target_pairs(df), 1)
    /\ source_table_db_mapping' = c_source_df'
    /\ target_table_db_mapping' = c_target_df'
    /\ c_store_at_start' = c_store
    /\ c_read_failed' = FALSE
    /\ source_tables_needing_lookup' = {}
    /\ target_tables_needing_lookup' = {}
    /\ c_pending' = {} /\ c_inflight' = <<>> /\ c_lookups' = <<>>
    /\ c_output' = <<>>
    /\ c_pc' = "load"
    /\ UNCHANGED c_store

\* lines 71-83 when pd.read_csv or the loop over the rows raises: the
\* warning is printed and the call goes on with the dictionaries as they
\* are
LoadExistingMappingsFails ==
    /\ c_pc = "load"
    /\ c_store # <<>>
    /\ c_read_failed' = TRUE
    /\ c_pc' = "loaded"
    /\ UNCHANGED <<c_store, c_source_df, c_target_df,
                   source_table_db_mapping, target_table_db_mapping,
                   c_df, c_calls, c_store_at_start,
                   source_tables_needing_lookup,
                   target_tables_needing_lookup,
                   c_pending, c_inflight, c_lookups, c_output>>

\* lines 154-164: the DataFrame written to output_file
mapped_output(df, source_mapping, target_mapping) ==
    [k \in DOMAIN df |->
        [df[k] EXCEPT
            !.source_db = IF df[k].source_table \in DOMAIN source_mapping
                          THEN source_mapping[df[k].source_table] ELSE @,
            !.target_db = IF df[k].target_table \in DOMAIN target_mapping
                          THEN target_mapping[df[k].target_table] ELSE @]]

\* lines 85-102: the tables of the DataFrame that are in neither
\* dictionary; lines 105-115 enter the loop over them, or skip it
FindTablesNeedingLookup ==
    /\ c_pc = "loaded"
    /\ c_calls >= 1
    /\ LET source_needing ==
               {c_df[k].source_table : k \in DOMAIN c_df}
                   \ DOMAIN source_table_db_mapping
           target_needing ==
               {c_df[k].target_table : k \in DOMAIN c_df}
                   \ DOMAIN target_table_db_mapping
           all_tables_needing_lookup == source_needing \cup target_needing
       IN  /\ source_tables_needing_lookup' = source_needing
           /\ target_tables_needing_lookup' = target_needing
           /\ c_pending' = all_tables_needing_lookup
           /\ c_pc' = IF all_tables_needing_lookup = {}
                      THEN "write" ELSE "lookup"
    /\ UNCHANGED <<c_store, c_source_df, c_target_df,
                   source_table_db_mapping, target_table_db_mapping,
                   c_df, c_calls, c_store_at_start, c_read_failed,
                   c_inflight, c_lookups, c_output>>

\* line 116: the loop takes a table of the set (in the set's iteration
\* order, which is any order) and get_database_name returns
GetDatabaseName ==
    /\ c_pc = "lookup" /\ c_inflight = <<>>
    /\ \E table \in c_pending : \E result \in LookupResults :
          /\ c_inflight' = <<table, result>>
          /\ c_lookups' = Append(c_lookups, <<table, result>>)
          /\ c_pending' = c_pending \ {table}
    /\ UNCHANGED <<c_store, c_source_df, c_target_df,
                   source_table_db_mapping, target_table_db_mapping,
                   c_pc, c_df, c_calls, c_store_at_start, c_read_failed,
                   source_tables_needing_lookup,
                   target_tables_needing_lookup, c_output>>

\* RecordLookup without the writes to the file at lines 125-127 and
\* 138-140: the results stay in the dictionaries until the call ends
RecordLookup_in_memory ==
    /\ c_pc = "lookup" /\ c_inflight # <<>>
    /\ LET table == c_inflight[1]
           db_name == IF c_inflight[2] = "None" THEN "Unknown"
                      ELSE c_inflight[2]
       IN  /\ source_table_db_mapping' =
                  IF table \in source_tables_needing_lookup
                  THEN DictPut(source_table_db_mapping, table, db_name)
                  ELSE source_table_db_mapping
           /\ target_table_db_mapping' =
                  IF table \in target_tables_needing_lookup
                  THEN DictPut(target_table_db_mapping, table, db_name)
                  ELSE target_table_db_mapping
    /\ c_inflight' = <<>>
    /\ c_pc' = IF c_pending = {} THEN "write" ELSE "lookup"
    /\ UNCHANGED <<c_store, c_source_df, c_target_df, c_df, c_calls,
                   c_store_at_start, c_read_failed,
                   source_tables_needing_lookup,
                   target_tables_needing_lookup,
                   c_pending, c_lookups, c_output>>

\* RecordLookup opening mapping_output with mode 'w' in the place of 'a' at
\* lines 126 and 139: the file is left with the new record alone
RecordLookup_truncates ==
    /\ c_pc = "lookup" /\ c_inflight # <<>>
    /\ LET table == c_inflight[1]
           db_name == IF c_inflight[2] = "None" THEN "Unknown"
                      ELSE c_inflight[2]
       IN  /\ source_table_db_mapping' =
                  IF table \in source_tables_needing_lookup
                  THEN DictPut(source_table_db_mapping, table, db_name)
                  ELSE source_table_db_mapping
           /\ target_table_db_mapping' =
                  IF table \in target_tables_needing_lookup
                  THEN DictPut(target_table_db_mapping, table, db_name)
                  ELSE target_table_db_mapping
           /\ c_store' = <<[table_name |-> table, database_name |-> db_name]>>
    /\ c_inflight' = <<>>
    /\ c_pc' = IF c_pending = {} THEN "write" ELSE "lookup"
    /\ UNCHANGED <<c_source_df, c_target_df, c_df, c_calls,
                   c_store_at_start, c_read_failed,
                   source_tables_needing_lookup,
                   target_tables_needing_lookup,
                   c_pending, c_lookups, c_output>>

\* RecordLookup with the append to the file inside each of the two `if`
\* of lines 119-122 and 132-135: a table needed as source and as target
\* gets two records
RecordLookup_per_context ==
    /\ c_pc = "lookup" /\ c_inflight # <<>>
    /\ LET table == c_inflight[1]
           db_name == IF c_inflight[2] = "None" THEN "Unknown"
                      ELSE c_inflight[2]
           record == [table_name |-> table, database_name |-> db_name]
       IN  /\ source_table_db_mapping' =
                  IF table \in source_tables_needing_lookup
                  THEN DictPut(source_table_db_mapping, table, db_name)
                  ELSE source_table_db_mapping
           /\ target_table_db_mapping' =
                  IF table \in target_tables_needing_lookup
                  THEN DictPut(target_table_db_mapping, table, db_name)
                  ELSE target_table_db_mapping
           /\ c_store' = c_store
                  \o (IF table \in source_tables_needing_lookup
                      THEN <<record>> ELSE <<>>)
                  \o (IF table \in target_tables_needing_lookup
                      THEN <<record>> ELSE <<>>)
    /\ c_inflight' = <<>>
    /\ c_pc' = IF c_pending = {} THEN "write" ELSE "lookup"
    /\ UNCHANGED <<c_source_df, c_target_df, c_df, c_calls,
                   c_store_at_start, c_read_failed,
                   source_tables_needing_lookup,
                   target_tables_needing_lookup,
                   c_pending, c_lookups, c_output>>

\* lines 117-140: the result, or "Unknown" for None, goes into the
\* dictionaries that needed the table and is appended to the file
RecordLookup ==
    /\ c_pc = "lookup" /\ c_inflight # <<>>
    /\ LET table == c_inflight[1]
           db_name == IF c_inflight[2] = "None" THEN "Unknown"
                      ELSE c_inflight[2]
       IN  /\ source_table_db_mapping' =
                  IF table \in source_tables_needing_lookup
                  THEN DictPut(source_table_db_mapping, table, db_name)
                  ELSE source_table_db_mapping
           /\ target_table_db_mapping' =
                  IF table \in target_tables_needing_lookup
                  THEN DictPut(target_table_db_mapping, table, db_name)
                  ELSE target_table_db_mapping
           /\ c_store' = Append(c_store,
                  [table_name |-> table, database_name |-> db_name])
    /\ c_inflight' = <<>>
    /\ c_pc' = IF c_pending = {} THEN "write" ELSE "lookup"
    /\ UNCHANGED <<c_source_df, c_target_df, c_df, c_calls,
                   c_store_at_start, c_read_failed,
                   source_tables_needing_lookup,
                   target_tables_needing_lookup,
                   c_pending, c_lookups, c_output>>

\* lines 146-166: the databases are mapped into the DataFrame, which is
\* written to output_file, and the call returns
WriteOutput ==
    /\ c_pc = "write"
    /\ c_output' = mapped_output(c_df, source_table_db_mapping,
                                 target_table_db_mapping)
    /\ c_pc' = "idle"
    /\ UNCHANGED <<c_store, c_source_df, c_target_df,
                   source_table_db_mapping, target_table_db_mapping,
                   c_df, c_calls, c_store_at_start, c_read_failed,
                   source_tables_needing_lookup,
                   target_tables_needing_lookup,
                   c_pending, c_inflight, c_lookups>>

\* the process is killed during a call
KillMapCall ==
    /\ c_pc \in {"load", "loaded", "lookup", "write"}
    /\ c_calls >= 1
    /\ c_pc' = "killed"
    /\ UNCHANGED <<c_store, c_source_df, c_target_df,
                   source_table_db_mapping, target_table_db_mapping,
                   mapVars>>

\* the DataFrames drawn for the labelling of a parsed output: two rows,
\* each table with one of two databases or none
LabelledDfRows ==
    [source_table : CacheTables, source_db : Databases \cup {"NaN"},
     target_table : CacheTables, target_db : Databases \cup {"NaN"}]
LabelledDataFrames == {<<r1, r2>> : r1 \in LabelledDfRows, r2 \in LabelledDfRows}

\* map_table_to_db, lines 37-67, called once on such a DataFrame while the
\* mapping_output file does not exist
StartCallLabelled ==
    /\ c_pc = "idle" /\ c_calls = 0
    /\ c_calls' = 1
    /\ \E df \in LabelledDataFrames :
          /\ c_df' = drop_duplicates(df)
          /\ c_source_df' = existing_mappings(<<>>, source_pairs(df), 1)
          /\ c_target_df' = existing_mappings(<<>>, target_pairs(df), 1)
    /\ source_table_db_mapping' = c_source_df'
    /\ target_table_db_mapping' = c_target_df'
    /\ c_store_at_start' = c_store
    /\ c_read_failed' = FALSE
    /\ source_tables_needing_lookup' = {}
    /\ target_tables_needing_lookup' = {}
    /\ c_pending' = {} /\ c_inflight' = <<>> /\ c_lookups' = <<>>
    /\ c_output' = <<>>
    /\ c_pc' = "load"
    /\ UNCHANGED c_store

\* before the first call: no mapping_output file
MapInit ==
    /\ c_store = <<>> /\ c_source_df = <<>> /\ c_target_df = <<>>
    /\ source_table_db_mapping = <<>> /\ target_table_db_mapping = <<>>
    /\ c_pc = "idle"
    /\ MapIdle

(***************************************************************************)
(* The specifications.                                                     *)
(***************************************************************************)
\* the variables of the other state machines
exceptWin == <<planVars, runVars, levelVars, killVars, pipeVars,
    cacheVars, setupVars, javaVars>>
exceptPlan == <<winVars, runVars, levelVars, killVars, pipeVars,
    cacheVars, setupVars, javaVars>>
exceptRun == <<winVars, planVars, levelVars, killVars, pipeVars,
    cacheVars, setupVars, javaVars>>
exceptLevels == <<winVars, planVars, runVars, killVars, pipeVars,
    cacheVars, setupVars, javaVars>>
exceptKill == <<winVars, planVars, runVars, levelVars, pipeVars,
    cacheVars, setupVars, javaVars>>
exceptCache ==
    <<winVars, planVars, runVars, levelVars, killVars, pipeVars,
      setupVars, javaVars>>
exceptPipe == <<winVars, planVars, runVars, levelVars, killVars,
    cacheVars, setupVars, javaVars>>
exceptSetup == <<winVars, planVars, runVars, levelVars, killVars,
    pipeVars, cacheVars, javaVars>>
exceptJava == <<winVars, planVars, runVars, levelVars, killVars,
    pipeVars, cacheVars, setupVars>>

InitWindows ==
    /\ WinInit /\ PlanIdle /\ RunIdle /\ LevelIdle /\ KillIdle
    /\ PipeIdle /\ CacheIdle
    /\ SetupIdle
    /\ JavaIdle
NextWindows ==
    \/ GenerateWindows /\ UNCHANGED exceptWin
SpecWindows == InitWindows /\ [][NextWindows]_vars

InitPlan ==
    /\ WinIdle /\ PlanInit /\ RunIdle /\ LevelIdle /\ KillIdle
    /\ PipeIdle /\ CacheIdle
    /\ SetupIdle
    /\ JavaIdle
NextPlan ==
    \/ PlanBatches /\ UNCHANGED exceptPlan
SpecPlan == InitPlan /\ [][NextPlan]_vars

InitLevels ==
    /\ WinIdle /\ PlanIdle /\ RunIdle /\ LevelInit /\ KillIdle
    /\ PipeIdle /\ CacheIdle
    /\ SetupIdle
    /\ JavaIdle
NextLevels ==
    \/ SetupLevel /\ UNCHANGED exceptLevels
    \/ RunLevelSteps /\ UNCHANGED exceptLevels
    \/ LevelStepFails /\ UNCHANGED exceptLevels
SpecLevels == InitLevels /\ [][NextLevels]_vars

\* run_pipeline is sequential code and every step terminates: a step that
\* can be taken is taken
SpecLevelsFair == SpecLevels /\ WF_vars(NextLevels)

InitKill ==
    /\ WinIdle /\ PlanIdle /\ RunIdle /\ LevelIdle /\ KillInit
    /\ PipeIdle /\ CacheIdle
    /\ SetupIdle
    /\ JavaIdle
NextKill ==
    \/ ReadAndConcat /\ UNCHANGED exceptKill
    \/ OpenDoneCsv /\ UNCHANGED exceptKill
    \/ WriteDoneRow /\ UNCHANGED exceptKill
    \/ CloseDoneCsv /\ UNCHANGED exceptKill
    \/ KillProcess /\ UNCHANGED exceptKill
SpecKill == InitKill /\ [][NextKill]_vars

InitPipeline ==
    /\ WinIdle /\ PlanIdle /\ RunIdle /\ LevelIdle /\ KillIdle
    /\ PipeInit /\ CacheIdle
    /\ SetupIdle
    /\ JavaIdle
NextPipeline ==
    \/ Main1 /\ UNCHANGED exceptPipe
    \/ Main1ResumeFails /\ UNCHANGED exceptPipe
    \/ StepCompletes /\ UNCHANGED exceptPipe
    \/ StepRaises /\ UNCHANGED exceptPipe
    \/ ArtifactLost /\ UNCHANGED exceptPipe
SpecPipeline == InitPipeline /\ [][NextPipeline]_vars

InitCache ==
    /\ WinIdle /\ PlanIdle /\ RunIdle /\ LevelIdle /\ KillIdle
    /\ PipeIdle /\ CacheInit
    /\ SetupIdle
    /\ JavaIdle
NextCache ==
    \/ LoadExistingMappings /\ UNCHANGED exceptCache
SpecCache == InitCache /\ [][NextCache]_vars

InitMap ==
    /\ WinIdle /\ PlanIdle /\ RunIdle /\ LevelIdle /\ KillIdle
    /\ PipeIdle /\ MapInit
    /\ SetupIdle
    /\ JavaIdle
NextMap ==
    \/ StartCall /\ UNCHANGED exceptCache
    \/ LoadExistingMappings /\ UNCHANGED exceptCache
    \/ LoadExistingMappingsFails /\ UNCHANGED exceptCache
    \/ FindTablesNeedingLookup /\ UNCHANGED exceptCache
    \/ GetDatabaseName /\ UNCHANGED exceptCache
    \/ RecordLookup /\ UNCHANGED exceptCache
    \/ WriteOutput /\ UNCHANGED exceptCache
    \/ KillMapCall /\ UNCHANGED exceptCache
SpecMap == InitMap /\ [][NextMap]_vars

InitSetup ==
    /\ WinIdle /\ PlanIdle /\ RunIdle /\ LevelIdle /\ KillIdle
    /\ PipeIdle /\ CacheIdle
    /\ SetupInit
    /\ JavaIdle
NextSetup ==
    \/ SetupNextLevel /\ UNCHANGED exceptSetup
SpecSetup == InitSetup /\ [][NextSetup]_vars

\* one call of map_table_to_db on a two-row DataFrame
NextLabel ==
    \/ StartCallLabelled /\ UNCHANGED exceptCache
    \/ LoadExistingMappings /\ UNCHANGED exceptCache
    \/ FindTablesNeedingLookup /\ UNCHANGED exceptCache
    \/ GetDatabaseName /\ UNCHANGED exceptCache
    \/ RecordLookup /\ UNCHANGED exceptCache
    \/ WriteOutput /\ UNCHANGED exceptCache
SpecLabel == InitMap /\ [][NextLabel]_vars

InitJava ==
    /\ WinIdle /\ PlanIdle /\ RunIdle /\ LevelIdle /\ KillIdle
    /\ PipeIdle /\ CacheIdle
    /\ SetupIdle
    /\ JavaInit
NextJava ==
    \/ JavaStarts /\ UNCHANGED exceptJava
    \/ JavaFailsToStart /\ UNCHANGED exceptJava
    \/ (\E f \in JsonFiles : JavaWritesFile(f)) /\ UNCHANGED exceptJava
    \/ JavaExits /\ UNCHANGED exceptJava
    \/ on_created /\ UNCHANGED exceptJava
    \/ on_modified /\ UNCHANGED exceptJava
    \/ HandlerPuts /\ UNCHANGED exceptJava
    \/ (\E w \in Workers : WorkerGet(w)) /\ UNCHANGED exceptJava
    \/ (\E w \in Workers : WorkerGetTimesOut(w)) /\ UNCHANGED exceptJava
    \/ (\E w \in Workers : WorkerDrainGet(w)) /\ UNCHANGED exceptJava
    \/ (\E w \in Workers : WorkerDrainEmpty(w)) /\ UNCHANGED exceptJava
    \/ (\E w \in Workers : WorkerProcesses(w)) /\ UNCHANGED exceptJava
    \/ MainJavaCompleted /\ UNCHANGED exceptJava
    \/ MainWaitTimeElapsed /\ UNCHANGED exceptJava
    \/ MainDrainGet /\ UNCHANGED exceptJava
    \/ MainDrainEmpty /\ UNCHANGED exceptJava
    \/ MainProcessRemaining /\ UNCHANGED exceptJava
    \/ MainReachesJoin /\ UNCHANGED exceptJava
    \/ MainJoinReturns /\ UNCHANGED exceptJava
    \/ MainFinally /\ UNCHANGED exceptJava
SpecJava == InitJava /\ [][NextJava]_vars

Init ==
    /\ WinIdle /\ PlanIdle /\ RunInit /\ LevelIdle /\ KillIdle
    /\ PipeIdle /\ CacheIdle
    /\ SetupIdle
    /\ JavaIdle
Next ==
    \/ MainAlreadyCompleted /\ UNCHANGED exceptRun
    \/ MainStart /\ UNCHANGED exceptRun
    \/ FetchRows /\ UNCHANGED exceptRun
    \/ FetchSkip /\ UNCHANGED exceptRun
    \/ FetchFatal /\ UNCHANGED exceptRun
    \/ BatchSucceeded /\ UNCHANGED exceptRun
    \/ BatchFailed /\ UNCHANGED exceptRun
    \/ MainCheck /\ UNCHANGED exceptRun
Spec == Init /\ [][Next]_vars

\* the runs of main against a backend whose timeouts are told apart from
\* its other errors
NextTimeout ==
    \/ Next
    \/ FetchTimeout /\ UNCHANGED exceptRun
SpecTimeout == Init /\ [][NextTimeout]_vars

(***************************************************************************)
(* Claims.                                                                 *)
(***************************************************************************)
\* the run that was started last has ended
RunEnded == pc = "idle" /\ run >= 1

\* a run is inside the loops of process_database_batches
InBatchLoops == pc \in {"fetch", "batch_ok", "batch_failed"}

\* the indexes of the queries of one batch under one statement type
QueriesOf(stmt, db, batch_number) ==
    {i \in DOMAIN queries :
        /\ queries[i].stmt = stmt
        /\ queries[i].db = db
        /\ queries[i].batch_number = batch_number}

\* C5 (as claimed): for every start <= end the windows of
\* generate_30d_batches(start, end) begin at start, are contiguous and
\* non-overlapping, cover every day of [start, end], and the last one ends
\* at end.
C5_WindowsCoverRange ==
    w_pc = "done" =>
        /\ w_windows # <<>>
        /\ w_windows[1].start_dt = w_start
        /\ w_windows[Len(w_windows)].end_dt = w_end
        /\ \A i \in DOMAIN w_windows :
              w_windows[i].start_dt <= w_windows[i].end_dt
        /\ \A i \in 1..(Len(w_windows) - 1) :
              w_windows[i + 1].start_dt = w_windows[i].end_dt + 1
        /\ \A d \in w_start..w_end :
              Cardinality({i \in DOMAIN w_windows :
                  w_windows[i].start_dt <= d /\ d <= w_windows[i].end_dt}) = 1

\* the number of rows of the list prm that are the table (db, table) and
\* have no record in store
PendingCount(prm, store, db, table) ==
    Cardinality({i \in DOMAIN prm :
        /\ prm[i].target_db = db /\ prm[i].target_table = table
        /\ ~\E j \in DOMAIN store :
              store[j].target_db = db /\ store[j].target_table = table})

\* the number of places the table (db, table) has in the batches of plan
PlannedCount(plan, db, table) ==
    Cardinality({pos \in (DOMAIN plan) \X (1..MaxParamLen) \X (1..MaxParamLen) :
        /\ plan[pos[1]].db = db
        /\ pos[2] \in DOMAIN plan[pos[1]].batches
        /\ pos[3] \in DOMAIN plan[pos[1]].batches[pos[2]].tables
        /\ plan[pos[1]].batches[pos[2]].tables[pos[3]] = table})

\* C4: group_tables_by_db puts every pending row in exactly one place of
\* one batch of its own database (as many places as the row has pending
\* occurrences, so exactly one for a pending set), every batch holds between
\* 1 and B tables, a database has at most one entry, and a database with no
\* pending table has no entry and no batch.
C4_PlanPartitionsPending ==
    p_pc = "done" =>
        /\ \A db \in Databases, table \in TableNames :
              PlannedCount(p_batches, db, table)
                  = PendingCount(p_param, p_done, db, table)
        /\ \A n \in DOMAIN p_batches :
              /\ p_batches[n].batches # <<>>
              /\ \A k \in DOMAIN p_batches[n].batches :
                    /\ Len(p_batches[n].batches[k].tables) >= 1
                    /\ Len(p_batches[n].batches[k].tables) <= p_size
              /\ \A m \in DOMAIN p_batches :
                    p_batches[m].db = p_batches[n].db => m = n

\* C4 witness: a database whose three pending tables make a full batch of
\* two and a shorter last batch of one.
C4_Witness ==
    /\ p_pc = "done"
    /\ p_size = 2
    /\ \E n \in DOMAIN p_batches :
          /\ Len(p_batches[n].batches) = 2
          /\ p_batches[n].batches[1].batch_size = 2
          /\ p_batches[n].batches[2].batch_size = 1

\* done.csv held a record of (db, table) when the current run started
DoneAtStart(db, table) ==
    \E j \in DOMAIN done_at_start :
        done_at_start[j].target_db = db /\ done_at_start[j].target_table = table

\* the tables of database db in the batches of plan, batch after batch
RECURSIVE BatchTables(_, _)
BatchTables(batches, k) ==
    IF k > Len(batches) THEN <<>>
    ELSE batches[k].tables \o BatchTables(batches, k + 1)

PlannedTables(plan, db) ==
    IF \E n \in DOMAIN plan : plan[n].db = db
    THEN BatchTables(plan[CHOOSE n \in DOMAIN plan : plan[n].db = db].batches, 1)
    ELSE <<>>

\* the tables of database db in param.csv, in input order, without those
\* that had a DoneRecord when the run started
RECURSIVE PendingTables(_, _, _)
PendingTables(prm, db, i) ==
    IF i > Len(prm) THEN <<>>
    ELSE IF prm[i].target_db = db /\ ~DoneAtStart(db, prm[i].target_table)
         THEN <<prm[i].target_table>> \o PendingTables(prm, db, i + 1)
         ELSE PendingTables(prm, db, i + 1)

\* C2: a run plans its batches over exactly the rows of the input list
\* that have no DoneRecord when it starts - per database the batches, in
\* order, hold those tables in input order, numbered 1, 2, ... - and no
\* backend query of the run names a table that had a DoneRecord at the
\* start.
C2_RunPlansPendingMinusDone ==
    /\ \A i \in DOMAIN queries : \A k \in DOMAIN queries[i].tables :
          ~DoneAtStart(queries[i].db, queries[i].tables[k])
    /\ (run >= 1 /\ (InBatchLoops \/ pc \in {"check", "idle"})) =>
          \A db \in Databases :
             /\ PlannedTables(db_batches, db) = PendingTables(param, db, 1)
             /\ \A n \in DOMAIN db_batches :
                   \A k \in DOMAIN db_batches[n].batches :
                      db_batches[n].batches[k].batch_number = k

\* C2 witness: a second run that found DoneRecords for some rows of the
\* input list, planned the others and queried the backend for them.
C2_Witness ==
    /\ run = 2
    /\ queries # <<>>
    /\ \E i \in DOMAIN param :
          DoneAtStart(param[i].target_db, param[i].target_table)
    /\ \E i \in DOMAIN param :
          ~DoneAtStart(param[i].target_db, param[i].target_table)

\* C1 (as claimed): a batch for which fetch_batch returned SKIP under a
\* statement type is not passed to update_done_csv under that statement
\* type in that run.
C1_NoDoneRecordForSkippedBatch ==
    \A m \in DOMAIN marked :
        \A i \in QueriesOf(marked[m].stmt, marked[m].db, marked[m].batch_number) :
            queries[i].outcome # "SKIP"

\* C6 (as claimed): when update_done_csv is called for a batch, every date
\* window of the range was queried for that batch and statement type in
\* this run and either returned rows or was skipped with its SKIP line.
C6_MarkedOnlyAfterEveryWindow ==
    \A m \in DOMAIN marked : \A w \in DOMAIN Windows :
        \E i \in QueriesOf(marked[m].stmt, marked[m].db, marked[m].batch_number) :
            /\ queries[i].start_dt = Windows[w].start_dt
            /\ queries[i].end_dt = Windows[w].end_dt
            /\ queries[i].outcome \in {"ROWS", "SKIP"}

\* no row of param.csv is repeated
NoRepeatedRow == \A i, j \in DOMAIN param : param[i] = param[j] => i = j

\* the records this run has added to done.csv
NewDoneRecords == SubSeq(done, Len(done_at_start) + 1, Len(done))

\* no query of the run was answered SKIP
NoSkipInRun == \A i \in DOMAIN queries : queries[i].outcome # "SKIP"

\* C7 (as claimed, for input lists without repeated rows and runs without
\* a SKIP): when a batch failed with a FATAL backend error under some
\* statement type, then at the end of the run done.csv holds no record made
\* by this run for a table of that batch, and the tables are still pending
\* for the next run.
C7_NoDoneRecordAfterFatal ==
    (RunEnded /\ NoRepeatedRow /\ NoSkipInRun) =>
        \A i \in DOMAIN queries : queries[i].outcome = "FATAL" =>
            \A k \in DOMAIN queries[i].tables :
                /\ ~\E j \in DOMAIN NewDoneRecords :
                      /\ NewDoneRecords[j].target_db = queries[i].db
                      /\ NewDoneRecords[j].target_table = queries[i].tables[k]
                /\ <<queries[i].db, queries[i].tables[k]>>
                      \notin load_processed_tables(done)

\* the backend was asked for the first date window of batch b of database
\* d under statement type s
Attempted(s, d, b) ==
    \E i \in QueriesOf(STATEMENT_TYPES[s], db_batches[d].db,
                       db_batches[d].batches[b].batch_number) :
        queries[i].start_dt = START_DATE

\* (s, d, b) comes before the batch the loops are at
BeforeCurrent(s, d, b) ==
    \/ s < si
    \/ s = si /\ d < di
    \/ s = si /\ d = di /\ b < bi

\* C8: a SKIP or FATAL outcome never aborts the run: every planned
\* (statement type, database, batch) the loops have passed was attempted,
\* whatever the outcomes before it, and at the end of process_database_batches
\* every planned one was.
C8_EveryPlannedBatchAttempted ==
    \A s \in DOMAIN STATEMENT_TYPES : \A d \in DOMAIN db_batches :
        \A b \in DOMAIN db_batches[d].batches :
            /\ (InBatchLoops /\ BeforeCurrent(s, d, b)) => Attempted(s, d, b)
            /\ (pc = "check" \/ RunEnded) => Attempted(s, d, b)

\* C8 witness: a run has ended in which the first query of some batch was
\* skipped, the first query of another failed, and a batch was queried
\* after both.
C8_Witness ==
    /\ RunEnded
    /\ \E i, j, k \in DOMAIN queries :
          /\ i < j /\ j < k
          /\ {queries[i].outcome, queries[j].outcome} = {"SKIP", "FATAL"}
          /\ queries[i].start_dt = START_DATE
          /\ queries[j].start_dt = START_DATE
          /\ queries[k].start_dt = START_DATE

\* the run's summary, lines 307-310
successful_batches == processed_batches - Len(failed_batches)

\* C9 (as claimed): at the end of process_database_batches every batch
\* whose extraction ended in SKIP or FATAL is in failed_batches with its
\* database, batch number, tables and statement type, and the summary does
\* not count it as successful.
C9_FailedBatchesRecorded ==
    (pc = "check" \/ RunEnded) =>
        LET bad == {i \in DOMAIN queries : queries[i].outcome \in {"SKIP", "FATAL"}}
        IN  /\ \A i \in bad : \E f \in DOMAIN failed_batches :
                  /\ failed_batches[f].db = queries[i].db
                  /\ failed_batches[f].batch = queries[i].batch_number
                  /\ failed_batches[f].tables = queries[i].tables
                  /\ failed_batches[f].statement = queries[i].stmt
            /\ successful_batches <= processed_batches - Cardinality(bad)

\* C10: once a query of a batch under a statement type was answered SKIP
\* or FATAL, the run issues no query for a later date window of that batch
\* under that statement type.
C10_NoQueryAfterSkipOrFatal ==
    \A i, j \in DOMAIN queries :
        (/\ i < j
         /\ queries[i].outcome \in {"SKIP", "FATAL"}
         /\ queries[j].stmt = queries[i].stmt
         /\ queries[j].db = queries[i].db
         /\ queries[j].batch_number = queries[i].batch_number)
        => ~(queries[j].start_dt > queries[i].start_dt)

\* C10 witness: with more than one date window, a run has ended in which
\* the first window of one batch was skipped and the first window of
\* another failed.
C10_Witness ==
    /\ RunEnded
    /\ Len(Windows) >= 2
    /\ \E i, j \in DOMAIN queries :
          /\ queries[i].outcome = "SKIP" /\ queries[i].start_dt = START_DATE
          /\ queries[j].outcome = "FATAL" /\ queries[j].start_dt = START_DATE

\* C3 (as claimed): the input table list of a level holds no (database,
\* table) that was in the input table list of any level before it.
C3_FrontierExcludesAllPriorInputs ==
    \A n \in DOMAIN level_inputs : \A m \in 1..(n - 1) :
        \A i \in DOMAIN level_inputs[n], j \in DOMAIN level_inputs[m] :
            level_inputs[n][i] # level_inputs[m][j]

\* every (database, table) of param.csv has a record in done.csv
EveryParamTableDone ==
    \A i \in DOMAIN param :
        <<param[i].target_db, param[i].target_table>>
            \in load_processed_tables(done)

\* C11 (as claimed, for runs without a SKIP): at the end of a run
\* completed.txt exists if and only if every (database, table) of param.csv
\* has a DoneRecord, for input lists with repeated rows as well.
C11_MarkerIffEveryTableDone ==
    (RunEnded /\ NoSkipInRun) => (completed <=> EveryParamTableDone)

\* C12: a run that starts while completed.txt exists ends at once: it issues
\* no backend query and leaves done.csv, the output files and completed.txt
\* as they were.
C12_CompletedRunChangesNothing ==
    [][(pc = "idle" /\ completed /\ run' # run) =>
          /\ pc' = "idle"
          /\ queries' = <<>>
          /\ UNCHANGED <<done, outfile, completed>>]_vars

\* C12 witness: a second run was started after a first one that extracted,
\* marked its batches and wrote completed.txt, and it has ended.
C12_Witness ==
    /\ run = 2 /\ pc = "idle" /\ completed
    /\ done # <<>>
    /\ \E s \in StatementTypeNames : outfile[s] # <<>>
    /\ queries = <<>>

\* C13: done.csv is append-only.  Every step leaves the records it held in
\* place, unchanged and in the same order, and a step that changes it adds
\* exactly one record per table of the batch being marked, in the batch's
\* order, carrying the batch's database, number and size.
C13_DoneStoreAppendOnly ==
    [][/\ Len(done') >= Len(done)
       /\ SubSeq(done', 1, Len(done)) = done
       /\ done' # done =>
             /\ pc = "batch_ok"
             /\ Len(done') = Len(done) + Len(CurBatch.tables)
             /\ \A k \in DOMAIN CurBatch.tables :
                   /\ done'[Len(done) + k].target_db = CurDb
                   /\ done'[Len(done) + k].target_table = CurBatch.tables[k]
                   /\ done'[Len(done) + k].batch_number = CurBatch.batch_number
                   /\ done'[Len(done) + k].batch_size = CurBatch.batch_size]_vars

\* C13 witness: a second run has added records to a done.csv that held the
\* records of the first run.
C13_Witness ==
    /\ run = 2
    /\ done_at_start # <<>>
    /\ Len(done) > Len(done_at_start)
    /\ SubSeq(done, 1, Len(done_at_start)) = done_at_start

\* C14 (as claimed): when the process is killed while update_done_csv is
\* executing, every record done.csv held before the call can still be read
\* from it.
C14_StoreSurvivesKill ==
    k_pc = "killed" =>
        \A i \in DOMAIN k_before : \E j \in DOMAIN k_file :
            k_file[j] = k_before[i]

\* the places of the steps of the current run that ran through
CompletedSteps == {i \in DOMAIN executed : executed[i].ok}

\* C15: within a run the steps of a level are executed in the order 1, 2,
\* 3, 4, 5, each at most once and never going back to a lower step, and a
\* step other than the run's first is executed only if the step before it
\* (the previous step of the level, or step 5 of the level before)
\* completed without exception in the same run.
C15_StepsInOrder ==
    /\ \A i \in 2..Len(executed) :
          /\ executed[i - 1].ok
          /\ \/ /\ executed[i].level = executed[i - 1].level
                /\ executed[i].step = executed[i - 1].step + 1
             \/ /\ executed[i].level = executed[i - 1].level + 1
                /\ executed[i - 1].step = 5
                /\ executed[i].step = 1
    /\ \A i, j \in DOMAIN executed :
          (i < j /\ executed[i].level = executed[j].level) =>
              executed[i].step < executed[j].step
    /\ \A i \in DOMAIN executed : executed[i].step \in Steps

\* C15 witness: a run that resumed above step 1 went through the rest of
\* the level and into the next level, where a step raised.
C15_Witness ==
    /\ Len(executed) >= 4
    /\ executed[1].step > 1
    /\ executed[Len(executed)].level > executed[1].level
    /\ ~executed[Len(executed)].ok

\* C16: the checkpoint file names the last step that completed without
\* exception: the last such step of the current run or, when no step of
\* the run has completed, what the file held when the run started.  A step
\* that raises leaves it as it is.
C16_CheckpointIsLastCompleted ==
    checkpoint =
        IF CompletedSteps = {}
        THEN start_from
        ELSE LET last == CHOOSE i \in CompletedSteps :
                             \A j \in CompletedSteps : j <= i
             IN  <<executed[last].level, executed[last].step>>

\* C16 witness: a step raised after other steps of the run had completed,
\* and the checkpoint file names the step before the one that raised.
C16_Witness ==
    /\ Len(executed) >= 2
    /\ ~executed[Len(executed)].ok
    /\ checkpoint = <<executed[Len(executed) - 1].level,
                      executed[Len(executed) - 1].step>>
    /\ checkpoint # start_from

\* C17: a run of main_1 that found the checkpoint (L, s) executes no step
\* of a level below L and no step below s of level L, its first step is
\* step s of level L, and in every later level it executes the steps from
\* step 1 on; a run that found no checkpoint starts at step 1 of the
\* configured start level.
C17_ResumeAtCheckpoint ==
    LET L == IF start_from # <<>> THEN start_from[1] ELSE cfg_start_level
        s == IF start_from # <<>> THEN start_from[2] ELSE 1
    IN  /\ executed # <<>> =>
              executed[1].level = L /\ executed[1].step = s
        /\ \A i \in DOMAIN executed :
              /\ executed[i].level >= L
              /\ executed[i].level = L => executed[i].step >= s
              /\ executed[i].level > L =>
                    executed[i].step = Cardinality({j \in 1..i :
                        executed[j].level = executed[i].level})

\* C17 witness: a run that found a checkpoint above step 1 has executed
\* all five steps of a later level.
C17_Witness ==
    /\ start_from # <<>>
    /\ start_from[2] >= 2
    /\ \E i \in DOMAIN executed :
          /\ executed[i].level > start_from[1]
          /\ executed[i].step = 5

\* C18 (as claimed, for a resume at step 4): when a run resumes and an
\* artifact that a skipped step is expected to have left is missing, no
\* step of the run completes.
C18_MissingArtifactIsFatal ==
    (missing_at_resume /\ start_from # <<>> /\ start_from[2] = 4) =>
        CompletedSteps = {}

\* run_pipeline step 1, lines 114-119: the <stmt>_queries.csv files that
\* exist after extraction main has returned
extracted_files == {STATEMENT_TYPES[i] : i \in DOMAIN STATEMENT_TYPES}
                       \cap {stmt \in StatementTypeNames : OutfileExists(stmt)}

\* run_pipeline step 1, lines 121-140: with an extracted file found the
\* step runs through, save_checkpoint(level_num, 1) is called and step 2
\* is next
Step1Completes == RunEnded /\ extracted_files # {}

\* C19 (as claimed, for runs without a SKIP): step 1 of a level completes,
\* is checkpointed and is followed by step 2 only if every table of the
\* level's input list has a DoneRecord and no batch of the extraction
\* ended in FATAL.
C19_ParseOnlyAfterAllBatchesDone ==
    (Step1Completes /\ NoSkipInRun) =>
        /\ EveryParamTableDone
        /\ \A i \in DOMAIN queries : queries[i].outcome # "FATAL"

\* the places of the records of table t in the store
RecordsOf(t) == {i \in DOMAIN c_store : c_store[i].table_name = t}

\* what the store's records say table t resolves to under the rule "first
\* record whose database is not Unknown, else Unknown"
FirstKnown(t) ==
    LET known == {i \in RecordsOf(t) : c_store[i].database_name # "Unknown"}
    IN  IF known = {} THEN "Unknown"
        ELSE c_store[CHOOSE i \in known : \A j \in known : i <= j].database_name

\* C20 (as claimed): after the reader has loaded the store, a table that
\* has records in the store and no value from the DataFrame resolves to the
\* database of its first record that is not "Unknown", and to "Unknown"
\* only if all its records are "Unknown".
C20_ReaderTakesFirstKnown ==
    c_pc = "loaded" =>
        \A t \in CacheTables : RecordsOf(t) # {} =>
            /\ t \notin DOMAIN c_source_df =>
                  source_table_db_mapping[t] = FirstKnown(t)
            /\ t \notin DOMAIN c_target_df =>
                  target_table_db_mapping[t] = FirstKnown(t)

\* C21 (as claimed): when the store holds a record (t, X) with X not
\* "Unknown", X being the only database named for t, and a record
\* (t, "Unknown") after it, a read resolves t to X (for a table without a
\* value from the DataFrame).
C21_LaterUnknownDoesNotOverride ==
    c_pc = "loaded" =>
        \A t \in CacheTables : \A i, j \in RecordsOf(t) :
            (/\ i < j
             /\ c_store[i].database_name # "Unknown"
             /\ c_store[j].database_name = "Unknown"
             /\ \A k \in RecordsOf(t) :
                   c_store[k].database_name
                       \in {"Unknown", c_store[i].database_name})
            => /\ t \notin DOMAIN c_source_df =>
                     source_table_db_mapping[t] = c_store[i].database_name
               /\ t \notin DOMAIN c_target_df =>
                     target_table_db_mapping[t] = c_store[i].database_name

\* table t had a record in the mapping_output file when the call started
CachedAtStart(t) ==
    \E i \in DOMAIN c_store_at_start : c_store_at_start[i].table_name = t

AppendedByCall == Len(c_store) - Len(c_store_at_start)

\* the record map_table_to_db writes for a lookup
LookupRecord(lookup) ==
    [table_name |-> lookup[1],
     database_name |-> IF lookup[2] = "None" THEN "Unknown" ELSE lookup[2]]

\* C23: at every point of a call, killed or not, the file holds the record
\* of every lookup the call has performed, in the order of the lookups,
\* but possibly the last one: a lookup's record (the database name, or
\* "Unknown" for a failed lookup) is appended before the next lookup starts.
C23_AtMostOneLookupUnrecorded ==
    /\ AppendedByCall <= Len(c_lookups)
    /\ Len(c_lookups) - AppendedByCall <= 1
    /\ Len(c_lookups) - AppendedByCall = 1 =>
           c_inflight = c_lookups[Len(c_lookups)]
    /\ \A i \in 1..AppendedByCall :
           c_store[Len(c_store_at_start) + i] = LookupRecord(c_lookups[i])

\* C23 witness: the process was killed after the second lookup of a call
\* had returned and before its record was written; the first lookup, which
\* had failed, is in the file as "Unknown".
C23_Witness ==
    /\ c_pc = "killed"
    /\ Len(c_lookups) = 2
    /\ c_inflight = c_lookups[2]
    /\ AppendedByCall = 1
    /\ c_lookups[1][2] = "None"
    /\ c_store[Len(c_store)].database_name = "Unknown"

\* the position of a statement type in STATEMENT_TYPES and of a database in
\* the run's plan
StmtIndex(stmt) ==
    CHOOSE k \in DOMAIN STATEMENT_TYPES : STATEMENT_TYPES[k] = stmt
DbIndex(db) ==
    CHOOSE k \in DOMAIN db_batches : db_batches[k].db = db

\* query q comes before query r in the nested order statement type,
\* database, batch number, window start
QueryBefore(q, r) ==
    \/ StmtIndex(q.stmt) < StmtIndex(r.stmt)
    \/ /\ q.stmt = r.stmt
       /\ \/ DbIndex(q.db) < DbIndex(r.db)
          \/ /\ q.db = r.db
             /\ \/ q.batch_number < r.batch_number
                \/ /\ q.batch_number = r.batch_number
                   /\ q.start_dt < r.start_dt

\* the queries of the run that returned rows for a statement type
RowQueries(stmt) ==
    SelectSeq(queries, LAMBDA q : q.stmt = stmt /\ q.outcome = "ROWS")

\* C24: the queries of a run follow each other in the nested order
\* statement type, database, batch number, date window; and whenever a
\* query is issued the rows of every earlier query of the run are in the
\* statement type's output file, as its last chunks, in the order of the
\* queries, so the windows of a batch stand in increasing date order.
C24_NestedOrderRowsWrittenBeforeNextQuery ==
    /\ \A i \in 1..(Len(queries) - 1) : QueryBefore(queries[i], queries[i + 1])
    /\ \A stmt \in DOMAIN outfile :
          LET rows == RowQueries(stmt)
              before == Len(outfile[stmt]) - Len(rows)
          IN  /\ before >= 0
              /\ \A j \in 1..Len(rows) :
                    /\ outfile[stmt][before + j].db = rows[j].db
                    /\ outfile[stmt][before + j].batch_number
                           = rows[j].batch_number
                    /\ outfile[stmt][before + j].start_dt = rows[j].start_dt

\* C24 witness: a run over two statement types and two batches of a
\* database has issued its eight queries, two windows per batch, and all
\* returned rows.
C24_Witness ==
    /\ pc = "check"
    /\ Len(queries) = 8
    /\ \A i \in 1..8 : queries[i].outcome = "ROWS"
    /\ queries[1].stmt # queries[8].stmt
    /\ queries[1].batch_number = 1 /\ queries[3].batch_number = 2
    /\ queries[1].start_dt < queries[2].start_dt

\* C25: in every statement type's output file the first chunk written, by
\* whatever run and batch and with or without rows, carries the header row
\* and no later chunk does.
C25_HeaderExactlyOnce ==
    \A stmt \in DOMAIN outfile :
        \A j \in DOMAIN outfile[stmt] : outfile[stmt][j].header <=> (j = 1)

\* C25 witness: in the first run the first window of the first database's
\* batch was skipped, so the batch wrote nothing, and a later batch created
\* the output file; the second run has appended to that file.
C25_Witness ==
    /\ run = 2 /\ stmts = <<"Insert">>
    /\ RowQueries("Insert") # <<>>
    /\ Len(outfile["Insert"]) > Len(RowQueries("Insert"))
    /\ \E i \in DOMAIN done :
          /\ done[i].processed_date = 1
          /\ \A j \in DOMAIN outfile["Insert"] :
                outfile["Insert"][j].db # done[i].target_db

\* the pending list of a planning call: the rows of param.csv without a
\* DoneRecord, in input order, and the pending tables of one database
PendingRows ==
    SelectSeq(p_param, LAMBDA row :
        ~\E i \in DOMAIN p_done :
            /\ p_done[i].target_db = row.target_db
            /\ p_done[i].target_table = row.target_table)
PendingOf(db) ==
    LET mine == SelectSeq(PendingRows, LAMBDA row : row.target_db = db)
    IN  [i \in DOMAIN mine |-> mine[i].target_table]

\* C26: the batches of a database are numbered 1, 2, ..., k; batch i holds
\* the tables at positions (i-1)*B+1 .. i*B (as far as they exist) of the
\* database's pending tables in input order, the k batches covering them
\* all; and the plan is the one group_tables_by_db returns for the pending
\* list alone, so it depends on param.csv and done.csv only through the
\* pending list.
C26_BatchNumberingIsFunctionOfPending ==
    p_pc = "done" =>
        /\ \A n \in DOMAIN p_batches :
              LET pend == PendingOf(p_batches[n].db)
                  bs == p_batches[n].batches
              IN  /\ (Len(bs) - 1) * p_size < Len(pend)
                  /\ Len(pend) <= Len(bs) * p_size
                  /\ \A i \in DOMAIN bs :
                        /\ bs[i].batch_number = i
                        /\ bs[i].tables =
                              SubSeq(pend, (i - 1) * p_size + 1,
                                     Min(i * p_size, Len(pend)))
        /\ p_batches = group_tables_by_db(PendingRows, <<>>, p_size)

\* C26 witness: a DoneRecord took a table off the list and a database of
\* the plan has a second batch.
C26_Witness ==
    /\ p_pc = "done"
    /\ Len(PendingRows) < Len(p_param)
    /\ \E n \in DOMAIN p_batches :
          /\ Len(p_batches[n].batches) = 2
          /\ p_batches[n].batches[2].batch_number = 2

\* C27 (as claimed): no row of the input_csv that setup_level_directory
\* writes for the next level has a database that could not be discovered.
C27_UnknownDatabaseNotQueued ==
    s_pc = "done" =>
        \A i \in DOMAIN s_new_input : s_new_input[i].db # "Unknown"

\* run_pipeline has returned: after the last level, or from a step's
\* except branch
CrawlStopped == l_pc \in {"completed", "stopped"}

\* C28: for every drawn discovery graph, cyclic ones included, run_pipeline
\* stops, having set up at most config.max_levels levels, and stays stopped.
C28_CrawlTerminates ==
    /\ [](Len(level_inputs) <= MaxLevels)
    /\ <>[]CrawlStopped

\* C28 witness: on a cyclic graph the crawl came back to the tables of two
\* levels before, level after level, and stopped after level
\* config.max_levels with tables still to visit.
C28_Witness ==
    /\ l_pc = "completed"
    /\ Len(level_inputs) = MaxLevels
    /\ level_inputs[MaxLevels] # <<>>
    /\ level_inputs[MaxLevels] = level_inputs[MaxLevels - 2]
    /\ level_outputs[MaxLevels] # <<>>

\* the batch of query q is in failed_batches
ReportedFailed(q) ==
    \E k \in DOMAIN failed_batches :
        /\ failed_batches[k].statement = q.stmt
        /\ failed_batches[k].db = q.db
        /\ failed_batches[k].batch = q.batch_number

\* C29 (as claimed): when a run has ended, for every query of the run that
\* timed out, no later window of its batch was queried, its batch is not in
\* failed_batches, and every batch planned after it was attempted.
C29_TimeoutTreatedAsSkip ==
    RunEnded =>
        \A i \in DOMAIN queries : queries[i].outcome = "TIMEOUT" =>
            /\ \A j \in DOMAIN queries :
                  (/\ queries[j].stmt = queries[i].stmt
                   /\ queries[j].db = queries[i].db
                   /\ queries[j].batch_number = queries[i].batch_number)
                  => j <= i
            /\ ~ReportedFailed(queries[i])
            /\ \A s \in DOMAIN STATEMENT_TYPES : \A d \in DOMAIN db_batches :
                  \A b \in DOMAIN db_batches[d].batches : Attempted(s, d, b)

\* the (database, table, batch number) of the DoneRecords that the
\* update_done_csv calls of the run wrote, were the calls made one after
\* the other: one block per marked batch, in the order of the calls
RECURSIVE MarkedBlocks(_)
MarkedBlocks(i) ==
    IF i > Len(marked) THEN <<>>
    ELSE LET d == CHOOSE d \in DOMAIN db_batches :
                      db_batches[d].db = marked[i].db
             b == CHOOSE b \in DOMAIN db_batches[d].batches :
                      db_batches[d].batches[b].batch_number
                          = marked[i].batch_number
             batch_tables == db_batches[d].batches[b].tables
         IN  [k \in DOMAIN batch_tables |->
                 <<marked[i].db, batch_tables[k], marked[i].batch_number>>]
             \o MarkedBlocks(i + 1)

\* the same columns of the DoneRecords appended to done.csv by the run
RunDoneRecords ==
    [k \in 1..(Len(done) - Len(done_at_start)) |->
        LET rec == done[Len(done_at_start) + k]
        IN  <<rec.target_db, rec.target_table, rec.batch_number>>]

C31_CacheStoreAppendOnly ==
    [][c_store' # c_store =>
          /\ c_inflight # <<>>
          /\ c_inflight = c_lookups[Len(c_lookups)]
          /\ c_store' = Append(c_store, LookupRecord(c_inflight))]_vars

\* C31 witness: the second call has appended a record to a file that held
\* the records of the first call, and has returned.
C31_Witness ==
    /\ c_calls = 2 /\ c_pc = "idle"
    /\ c_store_at_start # <<>>
    /\ Len(c_store) > Len(c_store_at_start)
    /\ SubSeq(c_store, 1, Len(c_store_at_start)) = c_store_at_start

\* a mapping file holds at most one record per table name
DuplicateFree(store) ==
    \A i, j \in DOMAIN store :
        store[i].table_name = store[j].table_name => i = j

C33_WindowRowsWrittenAtMostOnce ==
    \A stmt \in DOMAIN outfile :
        \A i, j \in DOMAIN outfile[stmt] :
            (/\ outfile[stmt][i].db = outfile[stmt][j].db
             /\ outfile[stmt][i].tables = outfile[stmt][j].tables
             /\ outfile[stmt][i].start_dt = outfile[stmt][j].start_dt)
            => i = j

\* C34: a step that raised is the last step its run executed, and
\* run_pipeline has returned: no later step of the level and no step of a
\* level above is executed in that run.
C34_RaisedStepEndsRun ==
    \A i \in DOMAIN executed : ~executed[i].ok =>
        /\ i = Len(executed)
        /\ m_pc = "idle"
        /\ \A j \in DOMAIN executed :
              \/ executed[j].level < executed[i].level
              \/ /\ executed[j].level = executed[i].level
                 /\ executed[j].step <= executed[i].step

\* C34 witness: a step below 5 of a level below the last raised, after a
\* whole level of the run had completed.
C34_Witness ==
    /\ Len(executed) >= 6
    /\ ~executed[Len(executed)].ok
    /\ executed[Len(executed)].step < 5
    /\ executed[Len(executed)].level < MaxLevels
    /\ executed[Len(executed)].level > executed[1].level

\* (level, step) a comes before b in lexicographic order
CheckpointBefore(a, b) ==
    \/ a[1] < b[1]
    \/ a[1] = b[1] /\ a[2] < b[2]

\* C35: the values save_checkpoint writes in a run are strictly increasing
\* in lexicographic order and none is below the value the run found in the
\* file; and no step of any run ever replaces the content of the checkpoint
\* file by a lower value.
C35_CheckpointNeverMovesBackward ==
    /\ [](/\ \A i, j \in CompletedSteps : i < j =>
                CheckpointBefore(<<executed[i].level, executed[i].step>>,
                                 <<executed[j].level, executed[j].step>>)
          /\ \A i \in CompletedSteps : start_from # <<>> =>
                ~CheckpointBefore(<<executed[i].level, executed[i].step>>,
                                  start_from))
    /\ [][(checkpoint' # checkpoint /\ checkpoint # <<>>) =>
              CheckpointBefore(checkpoint, checkpoint')]_vars

\* C35 witness: a run that resumed from a checkpoint wrote the same value
\* again for the step it resumed at, then higher ones, into the next level.
C35_Witness ==
    /\ m_run >= 2
    /\ start_from # <<>>
    /\ Len(executed) >= 3
    /\ executed[1].ok
    /\ <<executed[1].level, executed[1].step>> = start_from
    /\ checkpoint[1] > start_from[1]

\* C36 (as claimed): when a call has written its output, every row whose
\* source_db (target_db) was set in the input has the same source_db
\* (target_db) in the output.
C36_LabelledRowsUnchanged ==
    (c_pc = "idle" /\ c_calls >= 1 /\ Len(c_output) = Len(c_df)) =>
        \A k \in DOMAIN c_df :
            /\ c_df[k].source_db # "NaN" =>
                  c_output[k].source_db = c_df[k].source_db
            /\ c_df[k].target_db # "NaN" =>
                  c_output[k].target_db = c_df[k].target_db

\* the tasks of json_queue that a worker can still mark done: those a
\* worker holds, and those queued while a worker is left to take them
TasksStillMarkedDone ==
    Cardinality({w \in Workers : worker_pc[w] \in {"task", "drain_task"}})
      + (IF \E w \in Workers : worker_pc[w] # "exited"
         THEN Len(json_queue) ELSE 0)

\* C37 (as claimed): json_queue.join() returns. While the main thread
\* waits in join, every unfinished task of the queue is one that a worker
\* will mark done; a task beyond those keeps the count above zero for ever.
C37_JoinReturns ==
    main_pc = "join" => unfinished_tasks <= TasksStillMarkedDone

\* C38 (as claimed): results never contains two entries for the same file.
C38_EachFileProcessedOnce ==
    \A i, j \in DOMAIN results : i # j => results[i] # results[j]

====
